---- MODULE Spec2Model ----
(***************************************************************************)
(* A model of the Dance Bounce Detector: the web analyzer                  *)
(* (docs/bounce-detector.js) and the Android analyzer (BounceDetector.kt   *)
(* behind BounceDetectorService.kt and MainActivity.kt).                   *)
(*                                                                         *)
(* Numbers.  Accelerations are fixed-point integers in units of 0.01 m/s^2 *)
(* (9.81 m/s^2 is 981), filter coefficients are per-mille (0.005 is 5),    *)
(* times are milliseconds.  Float division is modelled by integer division *)
(* truncating toward zero and sqrt by the integer square root.             *)
(*                                                                         *)
(* Not modelled: the DOM widgets' texts, the notification, the web         *)
(* `samples` ring buffer (bounce-detector.js 132-137), which is written    *)
(* and never read, the service's currentAcceleration, and the sliders and  *)
(* the gravity mode select: sensitivity, volume and gravity mode keep      *)
(* their defaults.                                                         *)
(*                                                                         *)
(* Four specifications share the actions: Spec (detection against a        *)
(* clock), LifecycleSpec (audio feedback and pending asynchronous steps),  *)
(* CalibrationSpec (calibration runs, persistence, new sessions) and       *)
(* ScenarioSpec (one session fed a sample every 10 ms).                    *)
(***************************************************************************)
EXTENDS Integers, Sequences, FiniteSets, Bags, TLC

VARIABLES
    platform,            \* "web" | "android": which analyzer this run is
    env,                 \* the device: what the platform offers (fixed per run)
    now,                 \* Date.now() / System.currentTimeMillis()
    isRunning,
    isCalibrating,
    lastBounceTime,
    baselineMagnitude,
    bounceCount,
    gravity,             \* <<gravityX, gravityY, gravityZ>>
    calibrationSamples,  \* the magnitudes collected, as a bag (order is never read)
    config,              \* sensitivity, debounceTime, audioMode, gravityMode, ...
    listening,           \* sensors / events this analyzer is registered for
    permissionGranted,   \* web
    permissionWaiters,   \* web: startDetection calls suspended in requestPermission
    audioContext,        \* web: "null" | "suspended" | "running"
    resumeWaiters,       \* web: continuations suspended in audioContext.resume()
    oscillator,          \* web: oscillator # null; android: audioJob # null
    targetFrequency,     \* Hz: the frequency target last published
    targetVolume,        \* per-mille: the volume target last published
    currentVolume,       \* per-mille: the gain the continuous tone plays at
    lastGravity,         \* android: last TYPE_GRAVITY reading or NoReading
    lastLinearAcc,       \* android: last TYPE_LINEAR_ACCELERATION reading or NoReading
    delivered,           \* android, history: the sensors whose cached reading arrived
                         \* after the last startDetection / startCalibration that ran
    isDetecting,         \* android service
    wakeLockHeld,        \* android service
    currentBounceCount,  \* android service
    startIntents,        \* android: the START intents on their way to onStartCommand, in
                         \* order; each carries (history) whether the toggleDetection that
                         \* sent it also called the service's startDetection itself
    uiIsDetecting,       \* android MainActivity: _isDetecting
    serviceListener,     \* android: the activity is bound as serviceListener
    ui,                  \* android MainActivity: _sensitivity, _audioMode, ...
    store,               \* localStorage item / SharedPreferences
    out,                 \* the signals the last operation emitted, in order
    events,              \* history: the timestamps of the bounce signals, in order
    collected,           \* history: magnitudes processed since the last accepted startCalibration
    stopped,             \* history: stopDetection ran and no startDetection call since
    sessionBounces,      \* history: bounce signals since isRunning last became true
    origin               \* the time a scenario session starts, -1 outside scenarios

\* the analyzer's fields, with the history of its bounce signals
detVars == <<isRunning, isCalibrating, lastBounceTime, baselineMagnitude, bounceCount,
             gravity, calibrationSamples, listening, oscillator, targetFrequency,
             targetVolume, currentVolume, sessionBounces>>
webVars == <<permissionGranted, permissionWaiters, audioContext, resumeWaiters>>
sensorVars == <<lastGravity, lastLinearAcc, delivered>>
serviceVars == <<isDetecting, wakeLockHeld, currentBounceCount, startIntents, uiIsDetecting>>
histVars == <<events, collected, stopped>>
vars == <<platform, env, now, detVars, config, webVars, sensorVars, serviceVars,
          serviceListener, ui, store, out, histVars, origin>>

----------------------------------------------------------------------------
(* Program constants *)

DefaultBaseline == 981          \* 9.81 m/s^2
DefaultSensitivity == 300       \* 3.0 m/s^2
DefaultDebounceTime == 300      \* ms
DefaultVibrationDuration == 100 \* ms
GravityAlpha == 5               \* 0.005, per-mille
CalibrationAlpha == 100         \* 0.1, per-mille
AlphaScale == 1000
MinGravityMagnitude == 10       \* 0.1 m/s^2
CalibrationSampleCount == 50

(* Bounds of the model *)

MaxTime == 1000      \* the clock of the detection runs stops advancing here
MaxPending == 2      \* suspended asynchronous continuations at one time
MaxDrift == 1        \* no new calibration once the baseline is this far off 9.81
SmoothingStep == 10  \* ms of the web gain's approach that one smoothing step covers
MaxSmoothingSteps == 5   \* smoothing steps over which two approaches are compared
MaxBounces == 3      \* bounces of one run where the debounce time does not limit them

DefaultVolume == 500            \* audioVolume 0.5, per-mille
MinFreq == 200                  \* Hz
MaxFreq == 1000                 \* Hz
WebMaxDeviation == 1000         \* 10 m/s^2
DefaultAudioSensitivity == 500  \* 5.0 m/s^2 (android maxDeviation)
FullVolume == 1000              \* gain 1.0, per-mille
WebRiseTimeConstant == 20       \* 0.02 s, in ms
WebFallTimeConstant == 150      \* 0.15 s, in ms
AndroidRiseSmoothing == 300     \* 0.3, per-mille
AndroidFallSmoothing == 50      \* 0.05, per-mille

FrequencyModes == {"frequency", "frequency-fadeout"}
AudioModes == {"off", "discrete"} \cup FrequencyModes
GravityModes == {"sensor", "filter"}

----------------------------------------------------------------------------
(* Arithmetic *)

Abs(x) == IF x < 0 THEN -x ELSE x

\* Division truncating toward zero, as float division followed by dropping
\* the fraction: symmetric in the sign of a.
Quot(a, b) == IF a >= 0 THEN a \div b ELSE -((-a) \div b)

RECURSIVE SqrtIter(_, _, _)
SqrtIter(n, lo, hi) ==
    IF lo >= hi THEN lo
    ELSE LET mid == (lo + hi + 1) \div 2
         IN IF mid * mid <= n THEN SqrtIter(n, mid, hi) ELSE SqrtIter(n, lo, mid - 1)

Sqrt(n) == SqrtIter(n, 0, IF n < 40000 THEN n ELSE 40000)

Dot(a, b) == a[1] * b[1] + a[2] * b[2] + a[3] * b[3]

Norm(v) == Sqrt(Dot(v, v))

VecSub(a, b) == <<a[1] - b[1], a[2] - b[2], a[3] - b[3]>>

RECURSIVE BagSum(_)
BagSum(b) ==
    IF DOMAIN b = {} THEN 0
    ELSE LET x == CHOOSE y \in DOMAIN b : TRUE
         IN x * b[x] + BagSum([y \in DOMAIN b \ {x} |-> b[y]])

\* calibrationSamples.average() / sum / length
Average(b) == Quot(BagSum(b), BagCardinality(b))

----------------------------------------------------------------------------
(* Signals *)

Status(type, msg) == [sig |-> "status", type |-> type, msg |-> msg, val |-> 0]
Event(name, v) == [sig |-> name, type |-> "", msg |-> "", val |-> v]

Emitted(o, name) == \E i \in 1..Len(o) : o[i].sig = name
ValueOf(o, name) == o[CHOOSE i \in 1..Len(o) : o[i].sig = name].val
StatusEmitted(o, type) == \E i \in 1..Len(o) : o[i].sig = "status" /\ o[i].type = type

NoReading == <<>>
Axes == {"x", "y", "z"}
NoSettings == [keys |-> {}, sensitivity |-> 0, baselineMagnitude |-> 0, audioMode |-> "",
               audioVolume |-> 0, gravityMode |-> "", gravity |-> <<0, 0, 0>>]

Min(a, b) == IF a <= b THEN a ELSE b

----------------------------------------------------------------------------
(* The per-sample computations *)

\* alpha * g + (1 - alpha) * gravity, per axis
LowPass(alpha, acc, g) ==
    <<Quot(alpha * acc[1] + (AlphaScale - alpha) * g[1], AlphaScale),
      Quot(alpha * acc[2] + (AlphaScale - alpha) * g[2], AlphaScale),
      Quot(alpha * acc[3] + (AlphaScale - alpha) * g[3], AlphaScale)>>

\* Faulty variant: the filter keeps its slow rate during calibration
FilterAlphaSlow == GravityAlpha

\* "During calibration: use faster alpha (0.1)", "During detection: use very slow
\* alpha (0.005)"
FilterAlpha == IF isCalibrating THEN CalibrationAlpha ELSE GravityAlpha

\* web handleMotion: the event's linear acceleration is usable
HasLinearAcc(sample) == sample.lin # NoReading

WebUseSensor(sample) == config.gravityMode = "sensor" /\ HasLinearAcc(sample)

WebGravity(sample) ==
    IF WebUseSensor(sample) THEN VecSub(sample.acc, sample.lin)
    ELSE LowPass(FilterAlpha, sample.acc, gravity)

\* Faulty variant: without a gravity direction the magnitude is the baseline on
\* both paths
MagnitudeOneFallback(direct, acc, lin, g) ==
    LET gravityMagnitude == Norm(g)
    IN IF gravityMagnitude > MinGravityMagnitude
       THEN IF direct THEN baselineMagnitude + Quot(Dot(lin, g), gravityMagnitude)
            ELSE Abs(Quot(Dot(acc, g), gravityMagnitude))
       ELSE baselineMagnitude

\* the scalar vertical magnitude, given the updated gravity estimate g
\* Faulty variant: the Direct magnitude is the projection of the linear
\* acceleration alone
MagnitudeWithoutBaseline(direct, acc, lin, g) ==
    LET gravityMagnitude == Norm(g)
    IN IF direct
       THEN IF gravityMagnitude > MinGravityMagnitude
            THEN Quot(Dot(lin, g), gravityMagnitude)
            ELSE 0
       ELSE IF gravityMagnitude > MinGravityMagnitude
            THEN Abs(Quot(Dot(acc, g), gravityMagnitude))
            ELSE Norm(acc)

Magnitude(direct, acc, lin, g) ==
    LET gravityMagnitude == Norm(g)
    IN IF direct
       THEN IF gravityMagnitude > MinGravityMagnitude
            THEN baselineMagnitude + Quot(Dot(lin, g), gravityMagnitude)
            ELSE baselineMagnitude
       ELSE IF gravityMagnitude > MinGravityMagnitude
            THEN Abs(Quot(Dot(acc, g), gravityMagnitude))
            ELSE Norm(acc)

AndroidUseSensor ==
    /\ config.gravityMode = "sensor"
    /\ env.gravitySensorSupported
    /\ lastGravity # NoReading

AndroidGravity(values) ==
    IF AndroidUseSensor THEN lastGravity ELSE LowPass(FilterAlpha, values, gravity)

\* Faulty variants of detectBounce: without the debounce check, with an inclusive
\* threshold, and with a debounce window that is one millisecond longer
DetectBounceNoDebounce(m, t) ==
    Abs(m - baselineMagnitude) > config.sensitivity

DetectBounceInclusive(m, t) ==
    /\ ~(t - lastBounceTime < config.debounceTime)
    /\ Abs(m - baselineMagnitude) >= config.sensitivity

DetectBounceLongWindow(m, t) ==
    /\ ~(t - lastBounceTime <= config.debounceTime)
    /\ Abs(m - baselineMagnitude) > config.sensitivity

\* Faulty variant: only a magnitude above the baseline counts
DetectBounceSpikesOnly(m, t) ==
    /\ ~(t - lastBounceTime < config.debounceTime)
    /\ m - baselineMagnitude > config.sensitivity

\* Faulty variant: the window is taken on both sides of lastBounceTime
DetectBounceEitherSide(m, t) ==
    /\ ~(Abs(t - lastBounceTime) < config.debounceTime)
    /\ Abs(m - baselineMagnitude) > config.sensitivity

\* detectBounce's verdict for a sample of magnitude m at time t
DetectBounce(m, t) ==
    /\ ~(t - lastBounceTime < config.debounceTime)
    /\ Abs(m - baselineMagnitude) > config.sensitivity

\* min(deviation / maxDeviation, 1), per-mille
\* Faulty variant: the normalized deviation is not clamped at 1
UnclampedDeviation(deviation, maxDeviation) == Quot(deviation * 1000, maxDeviation)

NormalizedDeviation(deviation, maxDeviation) ==
    Min(Quot(deviation * 1000, maxDeviation), 1000)

FrequencyFor(deviation, maxDeviation) ==
    MinFreq + Quot((MaxFreq - MinFreq) * NormalizedDeviation(deviation, maxDeviation), 1000)

----------------------------------------------------------------------------
(* The web analyzer's audio and its asynchronous functions.  An async       *)
(* function runs to its first await on a promise that is really pending    *)
(* (the iOS permission prompt, audioContext.resume() of a suspended         *)
(* context); an await on a settled promise continues in the same task.     *)
(* These operators work on a snapshot w of the fields the functions write; *)
(* `mode` is config.audioMode as the function reads it and `st` the state  *)
(* in which the browser hands out a newly made AudioContext.               *)

WebCur ==
    [isRunning |-> isRunning, bounceCount |-> bounceCount, listening |-> listening,
     oscillator |-> oscillator, targetFrequency |-> targetFrequency,
     targetVolume |-> targetVolume, currentVolume |-> currentVolume,
     audioContext |-> audioContext,
     resumeWaiters |-> resumeWaiters, out |-> <<>>]

WebCommit(w) ==
    /\ isRunning' = w.isRunning
    /\ bounceCount' = w.bounceCount
    /\ listening' = w.listening
    /\ oscillator' = w.oscillator
    /\ targetFrequency' = w.targetFrequency
    /\ targetVolume' = w.targetVolume
    /\ currentVolume' = w.currentVolume
    /\ audioContext' = w.audioContext
    /\ resumeWaiters' = w.resumeWaiters
    /\ out' = w.out
    /\ sessionBounces' = IF ~isRunning /\ w.isRunning THEN 0
                         ELSE IF Emitted(w.out, "bounce") THEN sessionBounces + 1
                         ELSE sessionBounces

Emit(w, signal) == [w EXCEPT !.out = Append(@, signal)]

Await(w, continuation) == [w EXCEPT !.resumeWaiters = Append(@, continuation)]

InitAudio(w, st) ==
    IF w.audioContext # "null" \/ ~env.audioSupported THEN w
    ELSE [w EXCEPT !.audioContext = st]

StopFrequencyAudio(w) == [w EXCEPT !.oscillator = FALSE]

\* startFrequencyAudio from "Stop existing oscillator if any" on
StartFrequencyAudioResumed(w, mode) ==
    [StopFrequencyAudio(w) EXCEPT
        !.oscillator = TRUE,
        !.targetFrequency = MinFreq,
        !.targetVolume = IF mode = "frequency-fadeout" THEN 0 ELSE FullVolume,
        !.currentVolume = IF mode = "frequency-fadeout" THEN 0 ELSE FullVolume]

StartFrequencyAudio(w, mode, st) ==
    LET w1 == IF w.audioContext = "null" THEN InitAudio(w, st) ELSE w
    IN IF w1.audioContext = "null" THEN w1
       ELSE IF w1.audioContext = "suspended" THEN Await(w1, "startFrequencyAudio")
       ELSE StartFrequencyAudioResumed(w1, mode)

\* startDetection from "this.isRunning = true" on
StartDetectionResumed(w, mode, st) ==
    LET w1 == [w EXCEPT !.isRunning = TRUE, !.bounceCount = 0,
                        !.listening = @ \cup {"motion"}]
        w2 == IF mode \in FrequencyModes THEN StartFrequencyAudio(w1, mode, st) ELSE w1
    IN Emit(w2, Status("active", "Detecting bounces..."))

\* startDetection from "if (this.config.audioMode !== 'off')" on
StartDetectionGranted(w, mode, st) ==
    LET w1 == IF mode # "off" THEN InitAudio(w, st) ELSE w
    IN IF mode # "off" /\ w1.audioContext = "suspended"
       THEN Await(w1, "startDetection")
       ELSE StartDetectionResumed(w1, mode, st)

\* handleAudioModeChange from "Stop frequency audio if switching away" on
HandleAudioModeChangeResumed(w, mode, st) ==
    LET w1 == IF mode \notin FrequencyModes THEN StopFrequencyAudio(w) ELSE w
    IN IF mode \in FrequencyModes /\ w1.isRunning
       THEN StartFrequencyAudio(w1, mode, st)
       ELSE w1

HandleAudioModeChange(w, mode, st) ==
    LET fresh == mode # "off" /\ w.audioContext = "null"
        w1 == IF fresh THEN InitAudio(w, st) ELSE w
    IN IF fresh /\ w1.audioContext = "suspended"
       THEN Await(w1, "handleAudioModeChange")
       ELSE HandleAudioModeChangeResumed(w1, mode, st)

PlayDiscreteBuzz(w, st) ==
    LET w1 == IF w.audioContext = "null" THEN InitAudio(w, st) ELSE w
    IN IF w1.audioContext = "null" THEN w1
       ELSE IF w1.audioContext = "suspended" THEN Await(w1, "playDiscreteBuzz")
       ELSE Emit(w1, Event("buzz", config.audioVolume))

\* One continuation resumed after audioContext.resume() settled
RunWaiter(continuation, w, mode) ==
    CASE continuation = "startDetection" -> StartDetectionResumed(w, mode, "running")
      [] continuation = "handleAudioModeChange" ->
             HandleAudioModeChangeResumed(w, mode, "running")
      [] continuation = "startFrequencyAudio" -> StartFrequencyAudioResumed(w, mode)
      [] continuation = "playDiscreteBuzz" -> Emit(w, Event("buzz", config.audioVolume))

\* The browser settles all pending resume() promises in one task, in order
RECURSIVE RunWaiters(_, _, _)
RunWaiters(q, w, mode) ==
    IF q = <<>> THEN w ELSE RunWaiters(Tail(q), RunWaiter(Head(q), w, mode), mode)

----------------------------------------------------------------------------
(* Persisted settings *)

WebKeys == {"sensitivity", "baselineMagnitude", "audioMode", "audioVolume", "gravityMode",
            "gravityX", "gravityY", "gravityZ"}
AndroidKeys == {"sensitivity", "audioMode", "audioVolume", "gravityMode"}

\* web saveSettings: what it writes for configuration cfg, baseline b, gravity g
WebSaveSettings(cfg, b, g) ==
    [keys |-> WebKeys, sensitivity |-> cfg.sensitivity, baselineMagnitude |-> b,
     audioMode |-> cfg.audioMode, audioVolume |-> cfg.audioVolume,
     gravityMode |-> cfg.gravityMode, gravity |-> g]

\* MainActivity.saveSettings: the four preferences it puts, from the UI state u
ActivitySaveSettings(u) ==
    [NoSettings EXCEPT !.keys = AndroidKeys, !.sensitivity = u.sensitivity,
                       !.audioMode = u.audioMode, !.audioVolume = u.audioVolume,
                       !.gravityMode = u.gravityMode]

DefaultConfig ==
    [sensitivity |-> DefaultSensitivity, debounceTime |-> DefaultDebounceTime,
     vibrationDuration |-> DefaultVibrationDuration, audioMode |-> "off",
     audioVolume |-> DefaultVolume, audioSensitivity |-> DefaultAudioSensitivity,
     gravityMode |-> "sensor"]

DefaultGravity == <<0, 0, DefaultBaseline>>

\* web loadSettings: the configuration after loading the stored item st
WebLoadConfig(cfg, st) ==
    [cfg EXCEPT
        !.sensitivity = IF "sensitivity" \in st.keys THEN st.sensitivity ELSE @,
        !.audioMode = IF "audioMode" \in st.keys THEN st.audioMode ELSE @,
        !.audioVolume = IF "audioVolume" \in st.keys THEN st.audioVolume ELSE @,
        !.gravityMode = IF "gravityMode" \in st.keys THEN st.gravityMode ELSE @]

WebLoadBaseline(b, st) == IF "baselineMagnitude" \in st.keys THEN st.baselineMagnitude ELSE b

\* Faulty variant: the stored gravity is taken when any of its components is stored
WebLoadGravityAny(g, st) ==
    IF {"gravityX", "gravityY", "gravityZ"} \cap st.keys # {} THEN st.gravity ELSE g

WebLoadGravity(g, st) ==
    IF {"gravityX", "gravityY", "gravityZ"} \subseteq st.keys THEN st.gravity ELSE g

\* BounceDetector.loadSettings (Android), which sets the gravity estimate component
\* by component: the configuration, baseline and gravity after loading the map st
DetectorLoadSettings(cfg, b, g, st) ==
    [config |->
        [cfg EXCEPT
            !.sensitivity = IF "sensitivity" \in st.keys THEN st.sensitivity ELSE @,
            !.audioMode = IF "audioMode" \notin st.keys THEN @
                          ELSE IF st.audioMode \in AudioModes THEN st.audioMode ELSE "off",
            !.audioVolume = IF "audioVolume" \in st.keys THEN st.audioVolume ELSE @,
            !.gravityMode = IF "gravityMode" \notin st.keys THEN @
                            ELSE IF st.gravityMode \in GravityModes THEN st.gravityMode
                            ELSE "sensor"],
     baselineMagnitude |-> IF "baselineMagnitude" \in st.keys THEN st.baselineMagnitude ELSE b,
     gravity |-> <<IF "gravityX" \in st.keys THEN st.gravity[1] ELSE g[1],
                   IF "gravityY" \in st.keys THEN st.gravity[2] ELSE g[2],
                   IF "gravityZ" \in st.keys THEN st.gravity[3] ELSE g[3]>>]

\* MainActivity.loadSettings: the UI state read from the preferences
ActivityLoadSettings(st) ==
    [sensitivity |-> IF "sensitivity" \in st.keys THEN st.sensitivity ELSE DefaultSensitivity,
     audioMode |-> IF "audioMode" \in st.keys /\ st.audioMode \in AudioModes
                   THEN st.audioMode ELSE "off",
     audioVolume |-> IF "audioVolume" \in st.keys THEN st.audioVolume ELSE DefaultVolume,
     gravityMode |-> IF "gravityMode" \in st.keys /\ st.gravityMode \in GravityModes
                     THEN st.gravityMode ELSE "sensor"]

\* onServiceConnected: "Apply saved settings to detector"
ApplyUi(cfg, u) ==
    [cfg EXCEPT !.sensitivity = u.sensitivity, !.audioMode = u.audioMode,
                !.audioVolume = u.audioVolume, !.gravityMode = u.gravityMode]

----------------------------------------------------------------------------
(* Initial states: a first launch, nothing persisted *)

\* build names the analyzer that runs: the page's script docs/bounce-detector.js,
\* the TypeScript source src/bounce-detector.ts or the Android application
WebEnvs ==
    [needsPermission : BOOLEAN, audioSupported : {TRUE}, hasVibration : {TRUE},
     hasAccelerometer : {TRUE}, gravitySensorSupported : {TRUE}, build : {"docs"}]

\* browsers with and without the Vibration API
BrowserEnvs ==
    [needsPermission : BOOLEAN, audioSupported : {TRUE}, hasVibration : BOOLEAN,
     hasAccelerometer : {TRUE}, gravitySensorSupported : {TRUE}, build : {"docs"}]

SourceEnvs ==
    [needsPermission : BOOLEAN, audioSupported : {TRUE}, hasVibration : {TRUE},
     hasAccelerometer : {TRUE}, gravitySensorSupported : {TRUE}, build : {"src"}]

AndroidEnvs ==
    [needsPermission : {FALSE}, audioSupported : {TRUE}, hasVibration : {TRUE},
     hasAccelerometer : BOOLEAN, gravitySensorSupported : BOOLEAN, build : {"android"}]

StartTimes == {0, 400}

\* the analyzer and its surroundings as constructed, for configuration cfg
Constructed(cfg) ==
    /\ isRunning = FALSE
    /\ isCalibrating = FALSE
    /\ lastBounceTime = 0
    /\ baselineMagnitude = DefaultBaseline
    /\ bounceCount = 0
    /\ gravity = DefaultGravity
    /\ calibrationSamples = EmptyBag
    /\ config = cfg
    /\ listening = {}
    /\ permissionGranted = FALSE
    /\ permissionWaiters = 0
    /\ audioContext = "null"
    /\ resumeWaiters = <<>>
    /\ oscillator = FALSE
    /\ targetFrequency = MinFreq
    /\ targetVolume = FullVolume
    /\ currentVolume = 0
    /\ lastGravity = NoReading
    /\ lastLinearAcc = NoReading
    /\ delivered = {}
    /\ isDetecting = FALSE
    /\ wakeLockHeld = FALSE
    /\ currentBounceCount = 0
    /\ startIntents = <<>>
    /\ uiIsDetecting = FALSE
    /\ serviceListener = (platform = "android")
    /\ ui = ActivityLoadSettings(NoSettings)
    /\ store = NoSettings
    /\ out = <<>>
    /\ events = <<>>
    /\ collected = EmptyBag
    /\ stopped = FALSE
    /\ sessionBounces = 0

InitAt(platforms, times) ==
    /\ platform \in platforms
    /\ env \in (IF platform = "web" THEN WebEnvs ELSE AndroidEnvs)
    /\ now \in times
    /\ Constructed(DefaultConfig)

Init == InitAt({"web", "android"}, StartTimes) /\ origin = -1

----------------------------------------------------------------------------
(* Frames *)

fixedVars == <<platform, env, origin>>
androidVars == <<sensorVars, serviceVars, serviceListener, ui>>
\* what WebCommit does not write
webRest == <<isCalibrating, lastBounceTime, baselineMagnitude, gravity, calibrationSamples>>

----------------------------------------------------------------------------
(* Calibration: startCalibration and the calibration branch of a sample *)

\* Faulty variant of startCalibration's precondition: it rejects nothing
StartCalibrationNeverRejected == FALSE

StartCalibrationRejected == isRunning

\* the sensors startCalibration registers
CalibrationSensors ==
    IF platform = "web" THEN {"motion"}
    ELSE (IF env.hasAccelerometer THEN {"accel"} ELSE {})
         \cup (IF config.gravityMode = "sensor" /\ env.gravitySensorSupported
               THEN {"gravity"} ELSE {})

\* Faulty variant: startCalibration keeps the samples of the run before
KeptSamples == calibrationSamples

\* the sample list startCalibration begins a run with
ClearedSamples == EmptyBag

\* Faulty variant: startCalibration keeps the gravity estimate
KeptGravity == gravity

\* "Reset gravity to allow fast convergence during calibration"
ResetGravity == <<0, 0, DefaultBaseline>>

\* startCalibration of either analyzer
StartCalibration ==
    IF StartCalibrationRejected
    THEN /\ out' = <<Status("warning", "Stop detection before calibrating")>>
         /\ UNCHANGED <<detVars, histVars>>
    ELSE /\ isCalibrating' = TRUE
         /\ calibrationSamples' = ClearedSamples
         /\ gravity' = ResetGravity
         /\ listening' = listening \cup CalibrationSensors
         /\ out' = <<Status("calibrating", "Calibrating... Hold phone still")>>
         /\ collected' = EmptyBag
         /\ UNCHANGED <<isRunning, lastBounceTime, baselineMagnitude, bounceCount,
                        oscillator, targetFrequency, targetVolume, currentVolume,
                        events, stopped, sessionBounces>>

\* Faulty variant: the run ends one sample early
CalibrationDoneEarly(samples) == BagCardinality(samples) >= CalibrationSampleCount - 1

\* Faulty variant: the run ends one sample late
CalibrationDoneLate(samples) == BagCardinality(samples) > CalibrationSampleCount

CalibrationDone(samples) == BagCardinality(samples) >= CalibrationSampleCount

\* finishCalibration's baseline for the collected samples
CalibratedBaseline(samples) ==
    IF BagCardinality(samples) > 0 THEN Average(samples) ELSE baselineMagnitude

\* the signals finishCalibration emits for the new baseline b
FinishSignals(b) ==
    IF platform = "web"
    THEN <<[Status("ready", "Calibrated") EXCEPT !.val = b]>>
    ELSE <<Event("calibrationComplete", b), [Status("ready", "Calibrated") EXCEPT !.val = b]>>

\* what the stored settings are after finishCalibration: the web analyzer saves
\* its settings itself; on Android the service forwards onCalibrationComplete to
\* the activity, if bound, and MainActivity.onCalibrationComplete saves
FinishStore(b, g) ==
    IF platform = "web" THEN WebSaveSettings(config, b, g)
    ELSE IF serviceListener THEN ActivitySaveSettings(ui)
    ELSE store

\* Faulty variant: the current acceleration is shown past the calibration branch only
CurrentAccelerationDetecting(m) == IF isCalibrating THEN <<>> ELSE <<Event("magnitude", m)>>

\* "Update current acceleration display" / listener?.onAccelerationUpdate(magnitude)
CurrentAcceleration(m) == <<Event("magnitude", m)>>

\* a sample handler that never takes the calibration branch
CalibrationBranchSkipped == FALSE

\* the test that sends a sample to the calibration branch, which returns before
\* the audio update and detectBounce
CalibrationBranch == isCalibrating

\* a sample of magnitude m while isCalibrating; g is the updated gravity
CalibrationSample(m, g) ==
    LET samples == calibrationSamples (+) SetToBag({m})
        done == CalibrationDone(samples)
        saved == done /\ BagCardinality(samples) > 0
        b == IF done THEN CalibratedBaseline(samples) ELSE baselineMagnitude
    IN /\ calibrationSamples' = samples
       /\ collected' = collected (+) SetToBag({m})
       /\ isCalibrating' = ~done
       /\ listening' = IF done THEN {} ELSE listening
       /\ baselineMagnitude' = b
       /\ store' = IF saved THEN FinishStore(b, g) ELSE store
       /\ out' = CurrentAcceleration(m) \o (IF saved THEN FinishSignals(b) ELSE <<>>)
       /\ UNCHANGED <<isRunning, lastBounceTime, bounceCount, oscillator, targetFrequency,
                      targetVolume, currentVolume, events, stopped, sessionBounces>>

----------------------------------------------------------------------------
(* The web analyzer's operations *)

NewContextStates == {"suspended", "running"}

\* Faulty variant: the sample does not reach the continuous tone
WebUpdateAudioSkipped(w, mode, deviation) == w

\* updateFrequencyFromDeviation / updateFrequencyFadeoutFromDeviation
WebUpdateAudio(w, mode, deviation) ==
    IF mode = "frequency" /\ w.oscillator
    THEN [w EXCEPT !.targetFrequency = FrequencyFor(deviation, WebMaxDeviation)]
    ELSE IF mode = "frequency-fadeout" /\ w.oscillator
    THEN [w EXCEPT !.targetFrequency = FrequencyFor(deviation, WebMaxDeviation),
                   !.targetVolume = NormalizedDeviation(deviation, WebMaxDeviation)]
    ELSE w

\* Faulty variant: every audio mode plays the buzz
AnyAudioTone(mode) == mode # "off"

\* triggerFeedback's test for the discrete buzz
DiscreteTone(mode) == mode = "discrete"

\* onBounceDetected with triggerFeedback
WebOnBounceDetected(w, st) ==
    LET w1 == Emit([w EXCEPT !.bounceCount = @ + 1], Event("bounce", w.bounceCount + 1))
        w2 == IF env.hasVibration
              THEN Emit(w1, Event("vibrate", config.vibrationDuration)) ELSE w1
    IN IF DiscreteTone(config.audioMode) THEN PlayDiscreteBuzz(w2, st) ELSE w2

\* handleMotion past the calibration branch, for a sample of magnitude m
WebDetectionSample(m, st) ==
    LET deviation == Abs(m - baselineMagnitude)
        fire == DetectBounce(m, now)
        w0 == Emit(WebCur, Event("magnitude", m))
        w1 == WebUpdateAudio(w0, config.audioMode, deviation)
        w2 == IF fire THEN WebOnBounceDetected(w1, st) ELSE w1
    IN /\ WebCommit(w2)
       /\ lastBounceTime' = IF fire THEN now ELSE lastBounceTime
       /\ events' = IF fire THEN Append(events, now) ELSE events
       /\ UNCHANGED <<isCalibrating, baselineMagnitude, calibrationSamples, store,
                      collected, stopped>>

\* handleMotion's first test: the event is dropped. The page's script looks at the
\* three axes, the TypeScript source at z alone.
SampleIgnored(sample) ==
    \/ sample.acc = NoReading
    \/ IF env.build = "src" THEN "z" \in sample.nulls ELSE sample.nulls # {}

\* handleMotion's gravity estimate after the event; the TypeScript source keeps none
SampleGravity(sample) ==
    IF env.build = "src" THEN gravity ELSE WebGravity(sample)

\* handleMotion's magnitude for the event; the TypeScript source takes the raw z
SampleMagnitude(sample) ==
    IF env.build = "src" THEN sample.acc[3]
    ELSE Magnitude(WebUseSensor(sample), sample.acc, sample.lin, SampleGravity(sample))

\* a devicemotion event while the listener is registered
HandleMotion(sample, st) ==
    /\ platform = "web"
    /\ "motion" \in listening
    /\ IF SampleIgnored(sample)
       THEN /\ out' = <<>>
            /\ UNCHANGED <<detVars, webVars, store, histVars>>
       ELSE LET g == SampleGravity(sample)
                m == SampleMagnitude(sample)
            IN /\ gravity' = g
               /\ IF CalibrationBranch
                  THEN CalibrationSample(m, g) /\ UNCHANGED <<audioContext, resumeWaiters>>
                  ELSE WebDetectionSample(m, st)
               /\ UNCHANGED <<permissionGranted, permissionWaiters>>
    /\ UNCHANGED <<fixedVars, now, config, androidVars>>

\* startDetection up to its first pending await
WebStartDetection(st) ==
    /\ stopped' = FALSE
    /\ IF ~permissionGranted /\ env.needsPermission
       THEN /\ permissionWaiters' = permissionWaiters + 1
            /\ WebCommit(WebCur)
            /\ UNCHANGED permissionGranted
       ELSE /\ permissionGranted' = TRUE
            /\ WebCommit(StartDetectionGranted(WebCur, config.audioMode, st))
            /\ UNCHANGED permissionWaiters
    /\ UNCHANGED <<webRest, store, events, collected>>

\* Faulty variant: stopDetection flips isRunning
WebStoppedFlipping(w) ==
    [StopFrequencyAudio(w) EXCEPT !.isRunning = ~@, !.listening = @ \ {"motion"}]

\* the fields as stopDetection leaves them
WebStopped(w) ==
    [StopFrequencyAudio(w) EXCEPT !.isRunning = FALSE, !.listening = @ \ {"motion"}]

WebStopDetection ==
    /\ WebCommit(Emit(WebStopped(WebCur), Status("ready", "Stopped")))
    /\ stopped' = TRUE
    /\ UNCHANGED <<webRest, permissionGranted, permissionWaiters, store, events,
                   collected>>

\* a click on the start button: toggleDetection
ClickStart(st) ==
    /\ platform = "web"
    /\ IF isRunning THEN WebStopDetection
       ELSE /\ Len(resumeWaiters) + permissionWaiters < MaxPending
            /\ WebStartDetection(st)
    /\ UNCHANGED <<fixedVars, now, config, androidVars>>

\* the permission prompt is answered: one suspended startDetection continues
PermissionResolved(answer, st) ==
    /\ platform = "web"
    /\ permissionWaiters > 0
    /\ permissionWaiters' = permissionWaiters - 1
    /\ IF answer = "granted"
       THEN /\ permissionGranted' = TRUE
            /\ WebCommit(StartDetectionGranted(WebCur, config.audioMode, st))
       ELSE /\ WebCommit(Emit(WebCur, Status("error", answer)))
            /\ UNCHANGED permissionGranted
    /\ UNCHANGED <<webRest, store, histVars, fixedVars, now, config, androidVars>>

\* a click on the calibrate button, which is disabled during a calibration
ClickCalibrate ==
    /\ platform = "web"
    /\ ~isCalibrating
    /\ Abs(baselineMagnitude - DefaultBaseline) < MaxDrift
    /\ StartCalibration
    /\ UNCHANGED <<fixedVars, now, config, webVars, androidVars, store>>

\* the audio mode select changes: set, handleAudioModeChange, saveSettings
ChangeAudioMode(mode, st) ==
    /\ platform = "web"
    /\ Len(resumeWaiters) + permissionWaiters < MaxPending
    /\ config' = [config EXCEPT !.audioMode = mode]
    /\ WebCommit(HandleAudioModeChange(WebCur, mode, st))
    /\ store' = WebSaveSettings(config', baselineMagnitude, gravity)
    /\ UNCHANGED <<webRest, permissionGranted, permissionWaiters, histVars, fixedVars,
                   now, androidVars>>

\* the sensitivity slider, the volume slider or the gravity mode select changes:
\* set the configuration key, saveSettings
ChangeSetting(key, value) ==
    /\ platform = "web"
    /\ config' = [config EXCEPT ![key] = value]
    /\ store' = WebSaveSettings(config', baselineMagnitude, gravity)
    /\ out' = <<>>
    /\ UNCHANGED <<detVars, webVars, histVars, fixedVars, now, androidVars>>

\* the browser suspends the audio context (autoplay policy, interruption)
BrowserSuspend ==
    /\ platform = "web"
    /\ audioContext = "running"
    /\ audioContext' = "suspended"
    /\ out' = <<>>
    /\ UNCHANGED <<detVars, permissionGranted, permissionWaiters, resumeWaiters, store,
                   histVars, fixedVars, now, config, androidVars>>

\* resume() settles: every continuation waiting for it runs, in order
AudioResumed ==
    /\ platform = "web"
    /\ audioContext = "suspended"
    /\ resumeWaiters # <<>>
    /\ WebCommit(RunWaiters(resumeWaiters,
                            [WebCur EXCEPT !.audioContext = "running",
                                           !.resumeWaiters = <<>>],
                            config.audioMode))
    /\ UNCHANGED <<webRest, permissionGranted, permissionWaiters, store, histVars,
                   fixedVars, now, config, androidVars>>

----------------------------------------------------------------------------
(* The Android analyzer behind its service *)

\* the sensors startDetection registers
DetectionSensors ==
    {"accel"} \cup (IF config.gravityMode = "sensor" /\ env.gravitySensorSupported
                    THEN {"gravity", "linear"} ELSE {})

\* Faulty variant: startDetection does not look for the accelerometer
AccelerometerAssumed == FALSE

\* accelerometer == null
AccelerometerMissing == ~env.hasAccelerometer

\* BounceDetector.startDetection
StartDetection ==
    /\ stopped' = FALSE
    /\ IF AccelerometerMissing
       THEN /\ out' = <<Status("error", "Accelerometer not available")>>
            /\ UNCHANGED <<detVars, delivered>>
       ELSE /\ isRunning' = TRUE
            /\ delivered' = {}
            /\ bounceCount' = 0
            /\ sessionBounces' = IF isRunning THEN sessionBounces ELSE 0
            /\ listening' = listening \cup DetectionSensors
            /\ oscillator' = (oscillator \/ config.audioMode \in FrequencyModes)
            /\ targetVolume' = IF config.audioMode = "frequency-fadeout" THEN 0
                               ELSE IF config.audioMode = "frequency" THEN FullVolume
                               ELSE targetVolume
            /\ currentVolume' = IF config.audioMode = "frequency-fadeout" THEN 0
                                ELSE IF config.audioMode = "frequency" THEN FullVolume
                                ELSE currentVolume
            /\ out' = <<Status("active", "Detecting bounces...")>>
            /\ UNCHANGED <<isCalibrating, lastBounceTime, baselineMagnitude, gravity,
                           calibrationSamples, targetFrequency>>

\* the fields as BounceDetector.stopDetection leaves them: unregisterListener(this)
\* removes every registration, stopFrequencyAudio cancels the audio job
AndroidStopped(a) ==
    [a EXCEPT !.isRunning = FALSE, !.listening = {}, !.oscillator = FALSE]

\* BounceDetector.stopDetection
StopDetection ==
    /\ isRunning' = AndroidStopped(WebCur).isRunning
    /\ listening' = AndroidStopped(WebCur).listening
    /\ oscillator' = AndroidStopped(WebCur).oscillator
    /\ out' = <<Status("ready", "Stopped")>>
    /\ stopped' = TRUE
    /\ UNCHANGED <<isCalibrating, lastBounceTime, baselineMagnitude, bounceCount, gravity,
                   calibrationSamples, targetFrequency, targetVolume, currentVolume,
                   sessionBounces, delivered>>

\* MainActivity.onStatusChanged: _isDetecting after the status signals of o, which
\* reach the activity while it is the service's serviceListener
Heard(o) ==
    IF ~serviceListener THEN uiIsDetecting
    ELSE IF StatusEmitted(o, "active") THEN TRUE
    ELSE IF \E i \in 1..Len(o) : o[i] = Status("ready", "Stopped") THEN FALSE
    ELSE uiIsDetecting

\* a call the service returns from at once: nothing is written, nothing is emitted
ServiceIgnored ==
    /\ out' = <<>>
    /\ UNCHANGED <<detVars, isDetecting, wakeLockHeld, currentBounceCount, stopped,
                   delivered>>

\* startDetection past its guard
ServiceStarted ==
    /\ wakeLockHeld' = TRUE
    /\ isDetecting' = TRUE
    /\ currentBounceCount' = 0
    /\ StartDetection

\* stopDetection past its guard
ServiceStopped ==
    /\ isDetecting' = FALSE
    /\ StopDetection
    /\ wakeLockHeld' = FALSE
    /\ UNCHANGED currentBounceCount

\* BounceDetectorService.startDetection, whoever calls it
ServiceStartCall == IF isDetecting THEN ServiceIgnored ELSE ServiceStarted

\* BounceDetectorService.stopDetection, whoever calls it
ServiceStopCall == IF ~isDetecting THEN ServiceIgnored ELSE ServiceStopped

\* BounceDetectorService.startDetection, called where it is not detecting
ServiceStartDetection ==
    /\ platform = "android"
    /\ ~isDetecting
    /\ ServiceStarted
    /\ uiIsDetecting' = Heard(out')
    /\ UNCHANGED <<fixedVars, now, config, webVars, lastGravity, lastLinearAcc,
                   startIntents, serviceListener, ui, store, events, collected>>

\* BounceDetectorService.stopDetection, called where it is detecting
ServiceStopDetection ==
    /\ platform = "android"
    /\ isDetecting
    /\ ServiceStopped
    /\ uiIsDetecting' = Heard(out')
    /\ UNCHANGED <<fixedVars, now, config, webVars, lastGravity, lastLinearAcc,
                   startIntents, serviceListener, ui, store, events, collected>>

\* the actions an intent can carry to onStartCommand
IntentActions == {"START", "STOP", "STOP_SERVICE"}

\* BounceDetectorService.onStartCommand: a START intent is one that toggleDetection
\* sent; STOP comes from the notification's button, STOP_SERVICE from stopService
OnStartCommand(action) ==
    /\ platform = "android"
    /\ action \in IntentActions
    /\ IF action = "START"
       THEN /\ startIntents # <<>>
            /\ startIntents' = Tail(startIntents)
            /\ ServiceStartCall
       ELSE /\ UNCHANGED startIntents
            /\ ServiceStopCall
    /\ uiIsDetecting' = Heard(out')
    /\ UNCHANGED <<fixedVars, now, config, webVars, lastGravity, lastLinearAcc,
                   serviceListener, ui, store, events, collected>>

\* MainActivity.toggleDetection: the button of the detection screen
ToggleDetection ==
    /\ platform = "android"
    /\ IF uiIsDetecting
       THEN /\ ServiceStopCall
            /\ uiIsDetecting' = FALSE
            /\ UNCHANGED startIntents
       ELSE /\ Len(startIntents) < MaxPending
            /\ startIntents' = Append(startIntents, serviceListener)
            /\ IF serviceListener THEN ServiceStartCall ELSE ServiceIgnored
            /\ uiIsDetecting' = TRUE
    /\ UNCHANGED <<fixedVars, now, config, webVars, lastGravity, lastLinearAcc,
                   serviceListener, ui, store, events, collected>>

\* BounceDetectorService.onDestroy, which Android runs for a service nothing is
\* bound to: stopDetection, then the analyzer's release with its own stopDetection
OnDestroy ==
    /\ platform = "android"
    /\ ~serviceListener
    /\ isDetecting' = FALSE
    /\ wakeLockHeld' = IF isDetecting THEN FALSE ELSE wakeLockHeld
    /\ isRunning' = AndroidStopped(WebCur).isRunning
    /\ listening' = AndroidStopped(WebCur).listening
    /\ oscillator' = AndroidStopped(WebCur).oscillator
    /\ out' = (IF isDetecting THEN <<Status("ready", "Stopped")>> ELSE <<>>)
               \o <<Status("ready", "Stopped")>>
    /\ stopped' = TRUE
    /\ UNCHANGED <<isCalibrating, lastBounceTime, baselineMagnitude, bounceCount, gravity,
                   calibrationSamples, targetFrequency, targetVolume, currentVolume,
                   sessionBounces>>
    /\ UNCHANGED <<fixedVars, now, config, webVars, sensorVars, currentBounceCount,
                   startIntents, uiIsDetecting, serviceListener, ui, store, events,
                   collected>>

\* BounceDetectorService.startCalibration
ServiceStartCalibration ==
    /\ platform = "android"
    /\ Abs(baselineMagnitude - DefaultBaseline) < MaxDrift
    /\ StartCalibration
    /\ delivered' = IF StartCalibrationRejected THEN delivered ELSE {}
    /\ UNCHANGED <<fixedVars, now, config, webVars, lastGravity, lastLinearAcc, serviceVars,
                   serviceListener, ui, store>>

\* updateFrequencyFromDeviation / updateFrequencyFadeoutFromDeviation: <<frequency, volume>>
AndroidAudioTargets(mode, deviation) ==
    IF mode = "frequency"
    THEN <<FrequencyFor(deviation, config.audioSensitivity), FullVolume>>
    ELSE IF mode = "frequency-fadeout"
    THEN <<FrequencyFor(deviation, config.audioSensitivity),
           NormalizedDeviation(deviation, config.audioSensitivity)>>
    ELSE <<targetFrequency, targetVolume>>

\* onBounceDetected with triggerFeedback: the signals for the n-th bounce
AndroidBounceSignals(n) ==
    <<Event("bounce", n), Event("vibrate", config.vibrationDuration)>>
    \o (IF DiscreteTone(config.audioMode) THEN <<Event("buzz", config.audioVolume)>>
        ELSE <<>>)

\* processAcceleration past the calibration branch, for a sample of magnitude m
AndroidDetectionSample(m) ==
    LET deviation == Abs(m - baselineMagnitude)
        targets == AndroidAudioTargets(config.audioMode, deviation)
        fire == DetectBounce(m, now)
    IN /\ targetFrequency' = targets[1]
       /\ targetVolume' = targets[2]
       /\ lastBounceTime' = IF fire THEN now ELSE lastBounceTime
       /\ bounceCount' = IF fire THEN bounceCount + 1 ELSE bounceCount
       /\ currentBounceCount' = IF fire THEN bounceCount + 1 ELSE currentBounceCount
       /\ sessionBounces' = IF fire THEN sessionBounces + 1 ELSE sessionBounces
       /\ events' = IF fire THEN Append(events, now) ELSE events
       /\ out' = CurrentAcceleration(m)
                 \o (IF fire THEN AndroidBounceSignals(bounceCount + 1) ELSE <<>>)
       /\ UNCHANGED <<isRunning, isCalibrating, baselineMagnitude, calibrationSamples,
                      listening, oscillator, currentVolume, store, collected, stopped>>

ProcessAcceleration(values) ==
    LET g == AndroidGravity(values)
        m == Magnitude(AndroidUseSensor /\ lastLinearAcc # NoReading, values,
                       lastLinearAcc, g)
    IN /\ gravity' = g
       /\ IF CalibrationBranch
          THEN CalibrationSample(m, g) /\ UNCHANGED currentBounceCount
          ELSE AndroidDetectionSample(m)
       /\ UNCHANGED <<sensorVars, isDetecting, wakeLockHeld, startIntents, uiIsDetecting>>

\* a sensor event of a sensor this analyzer is registered for
OnSensorChanged(type, values) ==
    /\ platform = "android"
    /\ type \in listening
    /\ CASE type = "gravity" ->
              /\ lastGravity' = values
              /\ delivered' = delivered \cup {"gravity"}
              /\ out' = <<>>
              /\ UNCHANGED <<detVars, lastLinearAcc, serviceVars, store, histVars>>
         [] type = "linear" ->
              /\ lastLinearAcc' = values
              /\ delivered' = delivered \cup {"linear"}
              /\ out' = <<>>
              /\ UNCHANGED <<detVars, lastGravity, serviceVars, store, histVars>>
         [] type = "accel" -> ProcessAcceleration(values)
    /\ UNCHANGED <<fixedVars, now, config, webVars, serviceListener, ui>>

\* MainActivity.onStop: the activity unbinds
ActivityOnStop ==
    /\ platform = "android"
    /\ serviceListener
    /\ serviceListener' = FALSE
    /\ out' = <<>>
    /\ UNCHANGED <<fixedVars, now, detVars, config, webVars, sensorVars, serviceVars, ui,
                   store, histVars>>

\* MainActivity.onStart with onServiceConnected
ActivityOnStart ==
    /\ platform = "android"
    /\ ~serviceListener
    /\ serviceListener' = TRUE
    /\ uiIsDetecting' = isDetecting
    /\ config' = ApplyUi(config, ui)
    /\ out' = <<>>
    /\ UNCHANGED <<fixedVars, now, detVars, webVars, sensorVars, isDetecting, wakeLockHeld,
                   currentBounceCount, startIntents, ui, store, histVars>>

\* the AudioModeSelector's onModeSelected
SelectAudioMode(mode) ==
    /\ platform = "android"
    /\ serviceListener
    /\ ui' = [ui EXCEPT !.audioMode = mode]
    /\ config' = [config EXCEPT !.audioMode = mode]
    /\ store' = ActivitySaveSettings(ui')
    /\ out' = <<>>
    /\ UNCHANGED <<fixedVars, now, detVars, webVars, sensorVars, serviceVars,
                   serviceListener, histVars>>

\* the sensitivity slider's onValueChange, the GravityModeSelector's onModeSelected
SelectSetting(key, value) ==
    /\ platform = "android"
    /\ serviceListener
    /\ ui' = [ui EXCEPT ![key] = value]
    /\ config' = [config EXCEPT ![key] = value]
    /\ store' = ActivitySaveSettings(ui')
    /\ out' = <<>>
    /\ UNCHANGED <<fixedVars, now, detVars, webVars, sensorVars, serviceVars,
                   serviceListener, histVars>>

\* Faulty variant: the volume rises as slowly as it falls
VolumeStepSymmetric(current, target) ==
    IF platform = "web"
    THEN current + Quot((target - current) * SmoothingStep, WebFallTimeConstant)
    ELSE current + Quot((target - current) * AndroidFallSmoothing, FullVolume)

\* the volume after one smoothing step towards target. Web: the gain approaches the
\* target of setTargetAtTime with the time constant updateFrequencyFadeoutFromDeviation
\* chose, over SmoothingStep ms; the approach never passes the target, so the choice
\* made at the update is the one the volumes of any later instant give. Android: one
\* iteration of the audio loop.
VolumeStep(current, target) ==
    IF platform = "web"
    THEN LET timeConstant == IF target > current THEN WebRiseTimeConstant
                             ELSE WebFallTimeConstant
         IN current + Quot((target - current) * SmoothingStep, timeConstant)
    ELSE LET volumeSmoothing == IF target > current THEN AndroidRiseSmoothing
                                ELSE AndroidFallSmoothing
         IN current + Quot((target - current) * volumeSmoothing, FullVolume)

\* the continuous tone plays on: its volume moves one smoothing step
SmoothVolume ==
    /\ oscillator
    /\ currentVolume' = VolumeStep(currentVolume, targetVolume)
    /\ out' = <<>>
    /\ UNCHANGED <<isRunning, isCalibrating, lastBounceTime, baselineMagnitude, bounceCount,
                   gravity, calibrationSamples, listening, oscillator, targetFrequency,
                   targetVolume, sessionBounces>>
    /\ UNCHANGED <<fixedVars, now, config, webVars, androidVars, store, histVars>>

----------------------------------------------------------------------------
(* The surroundings *)

\* the clock advances by d ms
Tick(d) ==
    /\ now' = now + d
    /\ out' = <<>>
    /\ UNCHANGED <<fixedVars, detVars, config, webVars, androidVars, store, histVars>>

\* the wall clock that Date.now() and System.currentTimeMillis() read is set back
\* by d ms
ClockSetBack(d) ==
    /\ now - d >= 0
    /\ now' = now - d
    /\ out' = <<>>
    /\ UNCHANGED <<fixedVars, detVars, config, webVars, androidVars, store, histVars>>

\* the page is reloaded / the app process is restarted: a new session that
\* constructs everything anew and loads the persisted settings
Restart ==
    /\ isRunning' = FALSE
    /\ isCalibrating' = FALSE
    /\ lastBounceTime' = 0
    /\ bounceCount' = 0
    /\ calibrationSamples' = EmptyBag
    /\ listening' = {}
    /\ permissionGranted' = FALSE
    /\ permissionWaiters' = 0
    /\ audioContext' = "null"
    /\ resumeWaiters' = <<>>
    /\ oscillator' = FALSE
    /\ targetFrequency' = MinFreq
    /\ targetVolume' = FullVolume
    /\ currentVolume' = 0
    /\ lastGravity' = NoReading
    /\ lastLinearAcc' = NoReading
    /\ delivered' = {}
    /\ isDetecting' = FALSE
    /\ wakeLockHeld' = FALSE
    /\ currentBounceCount' = 0
    /\ startIntents' = <<>>
    /\ uiIsDetecting' = FALSE
    /\ serviceListener' = (platform = "android")
    /\ out' = <<>>
    /\ events' = <<>>
    /\ collected' = EmptyBag
    /\ stopped' = FALSE
    /\ sessionBounces' = 0
    /\ IF platform = "web"
       THEN /\ config' = WebLoadConfig(DefaultConfig, store)
            /\ baselineMagnitude' = WebLoadBaseline(DefaultBaseline, store)
            /\ gravity' = WebLoadGravity(DefaultGravity, store)
            /\ UNCHANGED ui
       ELSE /\ ui' = ActivityLoadSettings(store)
            /\ config' = ApplyUi(DefaultConfig, ui')
            /\ baselineMagnitude' = DefaultBaseline
            /\ gravity' = DefaultGravity
    /\ UNCHANGED <<fixedVars, now, store>>

----------------------------------------------------------------------------
(* Inputs *)

\* vertical linear accelerations of a sample: at rest, exactly at the default
\* sensitivity, just above it, and just below minus it
Deviations == {0, DefaultSensitivity, DefaultSensitivity + 1, -(DefaultSensitivity + 1)}

TickSteps == {100, 150}

\* what the permission prompt settles to; "thrown": requestPermission rejects
PermissionAnswers == {"granted", "denied", "thrown"}

\* a devicemotion event of a device held upright that accelerates by l along gravity
\* nulls: the axes of accelerationIncludingGravity that are null
WebMotion(l) == [acc |-> <<0, 0, DefaultBaseline + l>>, lin |-> <<0, 0, l>>, nulls |-> {}]

\* an event in which one axis of accelerationIncludingGravity is null
WebPartial(axis, l) == [WebMotion(l) EXCEPT !.nulls = {axis}]

\* events without readings, and of a device without a linear acceleration sensor at rest
WebNull == [acc |-> NoReading, lin |-> NoReading, nulls |-> {}]
WebRest == [acc |-> DefaultGravity, lin |-> NoReading, nulls |-> {}]

\* the phone is held still while it calibrates
WebSamples ==
    IF isCalibrating THEN {WebNull, WebRest, WebMotion(0)}
    ELSE {WebNull, WebRest} \cup {WebMotion(l) : l \in Deviations}
                            \cup {WebPartial(axis, DefaultSensitivity + 1) : axis \in Axes}

AndroidReadings(type) ==
    IF type = "linear" THEN {<<0, 0, l>> : l \in Deviations} ELSE {DefaultGravity}

\* the lifecycle's inputs: the device at rest, or in one bounce
LifecycleTime == 400
LifecycleDeviations == {0, DefaultSensitivity + 1}

LifecycleSamples ==
    IF isCalibrating THEN {WebMotion(0)} ELSE {WebMotion(l) : l \in LifecycleDeviations}

LifecycleReadings(type) ==
    IF type = "linear" THEN {<<0, 0, l>> : l \in LifecycleDeviations} ELSE {DefaultGravity}

SensorTypes == {"accel", "gravity", "linear"}

----------------------------------------------------------------------------
(* Detection: the analyzers with the audio feedback off, bounces and a clock *)

Next ==
    \/ \E st \in NewContextStates : ClickStart(st)
    \/ \E answer \in PermissionAnswers, st \in NewContextStates : PermissionResolved(answer, st)
    \/ \E sample \in WebSamples, st \in NewContextStates : HandleMotion(sample, st)
    \/ ServiceStartDetection
    \/ ServiceStopDetection
    \/ \E type \in SensorTypes : \E values \in AndroidReadings(type) : OnSensorChanged(type, values)
    \/ \E d \in TickSteps : now + d <= MaxTime /\ Tick(d)

Spec == Init /\ [][Next]_vars

----------------------------------------------------------------------------
(* Lifecycle: the analyzers with their audio feedback and the pending       *)
(* asynchronous steps, at one instant of the clock                         *)

LifecycleInit ==
    /\ platform \in {"web", "android"}
    /\ env \in (IF platform = "web" THEN BrowserEnvs ELSE AndroidEnvs)
    /\ now = LifecycleTime
    /\ Constructed(DefaultConfig)
    /\ origin = -1

LifecycleNext ==
    \/ \E st \in NewContextStates : ClickStart(st)
    \/ \E answer \in PermissionAnswers, st \in NewContextStates : PermissionResolved(answer, st)
    \/ \E sample \in LifecycleSamples, st \in NewContextStates : HandleMotion(sample, st)
    \/ \E mode \in AudioModes, st \in NewContextStates : ChangeAudioMode(mode, st)
    \/ BrowserSuspend
    \/ AudioResumed
    \/ ServiceStartDetection
    \/ ServiceStopDetection
    \/ \E type \in SensorTypes : \E values \in LifecycleReadings(type) : OnSensorChanged(type, values)
    \/ ActivityOnStop
    \/ ActivityOnStart
    \/ \E mode \in AudioModes : SelectAudioMode(mode)

LifecycleSpec == LifecycleInit /\ [][LifecycleNext]_vars

----------------------------------------------------------------------------
(* Calibration: the analyzers with the audio feedback off, calibration     *)
(* runs over two magnitudes, and sessions that end and start               *)

CalibrationMagnitudes == {DefaultBaseline, DefaultBaseline + 40}

\* events whose magnitude, as handleMotion computes it, is z
CalibrationSamples == {WebMotion(z - baselineMagnitude) : z \in CalibrationMagnitudes}

\* accelerometer readings vary while the gravity sensor gives the direction,
\* and keep the gravity filter at rest otherwise
CalibrationReadings(type) ==
    IF type = "accel" /\ AndroidUseSensor
    THEN {<<0, 0, z>> : z \in CalibrationMagnitudes}
    ELSE IF type = "linear" THEN {<<0, 0, 0>>}
    ELSE {DefaultGravity}

CalibrationInit == InitAt({"web", "android"}, {LifecycleTime}) /\ origin = -1

CalibrationNext ==
    \/ \E st \in NewContextStates : ClickStart(st)
    \/ \E answer \in PermissionAnswers, st \in NewContextStates : PermissionResolved(answer, st)
    \/ ClickCalibrate
    \/ \E sample \in CalibrationSamples, st \in NewContextStates : HandleMotion(sample, st)
    \/ ServiceStartDetection
    \/ ServiceStopDetection
    \/ ServiceStartCalibration
    \/ \E type \in SensorTypes : \E values \in CalibrationReadings(type) :
           OnSensorChanged(type, values)
    \/ ActivityOnStop
    \/ ActivityOnStart
    \/ Restart

CalibrationSpec == CalibrationInit /\ [][CalibrationNext]_vars

----------------------------------------------------------------------------
(* Scenario: one detection session of a newly constructed analyzer that is  *)
(* fed a sample exceeding the threshold every 10 ms for 1000 ms            *)

Exceeding == DefaultSensitivity + 1

ScenarioInit ==
    /\ InitAt({"web", "android"}, StartTimes)
    /\ env.hasAccelerometer
    /\ origin = now

\* the Android sensors that report before the accelerometer have reported
SensorsReady ==
    /\ "gravity" \in listening => lastGravity # NoReading
    /\ "linear" \in listening => lastLinearAcc # NoReading

SampleDelivered == Emitted(out, "magnitude")

ScenarioDone == isRunning /\ SampleDelivered /\ now >= origin + 1000

ScenarioNext ==
    \/ \E st \in NewContextStates : ~isRunning /\ permissionWaiters = 0 /\ ClickStart(st)
    \/ \E st \in NewContextStates : PermissionResolved("granted", st)
    \/ ServiceStartDetection
    \/ lastGravity = NoReading /\ OnSensorChanged("gravity", DefaultGravity)
    \/ lastLinearAcc = NoReading /\ OnSensorChanged("linear", <<0, 0, Exceeding>>)
    \/ \E st \in NewContextStates :
           isRunning /\ ~SampleDelivered /\ HandleMotion(WebMotion(Exceeding), st)
    \/ /\ isRunning /\ ~SampleDelivered /\ SensorsReady
       /\ OnSensorChanged("accel", <<0, 0, DefaultBaseline + Exceeding>>)
    \/ SampleDelivered /\ ~ScenarioDone /\ Tick(10)

ScenarioSpec == ScenarioInit /\ [][ScenarioNext]_vars

----------------------------------------------------------------------------
(* Feedback: sessions that start with a stored audio mode, with calibration *)
(* runs whose samples may exceed the threshold, at one instant of the clock *)

\* the stored settings of an installation whose user selected audio mode m
StoredWith(m) ==
    IF platform = "web"
    THEN WebSaveSettings([DefaultConfig EXCEPT !.audioMode = m], DefaultBaseline,
                         DefaultGravity)
    ELSE ActivitySaveSettings([ActivityLoadSettings(NoSettings) EXCEPT !.audioMode = m])

\* the analyzer and its surroundings as a new session that found the settings st
SessionStarted(st) ==
    /\ isRunning = FALSE
    /\ isCalibrating = FALSE
    /\ lastBounceTime = 0
    /\ bounceCount = 0
    /\ calibrationSamples = EmptyBag
    /\ listening = {}
    /\ permissionGranted = FALSE
    /\ permissionWaiters = 0
    /\ audioContext = "null"
    /\ resumeWaiters = <<>>
    /\ oscillator = FALSE
    /\ targetFrequency = MinFreq
    /\ targetVolume = FullVolume
    /\ currentVolume = 0
    /\ lastGravity = NoReading
    /\ lastLinearAcc = NoReading
    /\ delivered = {}
    /\ isDetecting = FALSE
    /\ wakeLockHeld = FALSE
    /\ currentBounceCount = 0
    /\ startIntents = <<>>
    /\ uiIsDetecting = FALSE
    /\ serviceListener = (platform = "android")
    /\ out = <<>>
    /\ events = <<>>
    /\ collected = EmptyBag
    /\ stopped = FALSE
    /\ sessionBounces = 0
    /\ store = st
    /\ ui = ActivityLoadSettings(IF platform = "web" THEN NoSettings ELSE st)
    /\ config = IF platform = "web" THEN WebLoadConfig(DefaultConfig, st)
                ELSE ApplyUi(DefaultConfig, ActivityLoadSettings(st))
    /\ baselineMagnitude = IF platform = "web" THEN WebLoadBaseline(DefaultBaseline, st)
                           ELSE DefaultBaseline
    /\ gravity = IF platform = "web" THEN WebLoadGravity(DefaultGravity, st)
                 ELSE DefaultGravity

FeedbackInit ==
    /\ platform \in {"web", "android"}
    /\ env \in (IF platform = "web" THEN WebEnvs ELSE AndroidEnvs)
    /\ now = LifecycleTime
    /\ \E m \in AudioModes : SessionStarted(StoredWith(m))
    /\ origin = -1

\* the device at rest or in one bounce; a calibration run is made of samples
\* that exceed the threshold around the baseline
FeedbackDeviations == IF isCalibrating THEN {Exceeding} ELSE LifecycleDeviations

FeedbackSamples == {WebNull} \cup {WebMotion(l) : l \in FeedbackDeviations}

FeedbackReadings(type) ==
    IF type = "accel" /\ AndroidUseSensor /\ lastLinearAcc = NoReading
    THEN {<<0, 0, DefaultBaseline + l>> : l \in FeedbackDeviations}
    ELSE IF type = "linear" THEN {<<0, 0, l>> : l \in FeedbackDeviations}
    ELSE {DefaultGravity}

FeedbackNext ==
    \/ \E st \in NewContextStates : ClickStart(st)
    \/ \E answer \in PermissionAnswers, st \in NewContextStates : PermissionResolved(answer, st)
    \/ ClickCalibrate
    \/ \E sample \in FeedbackSamples, st \in NewContextStates : HandleMotion(sample, st)
    \/ AudioResumed
    \/ ServiceStartDetection
    \/ ServiceStopDetection
    \/ ServiceStartCalibration
    \/ \E type \in SensorTypes : \E values \in FeedbackReadings(type) :
           OnSensorChanged(type, values)

FeedbackSpec == FeedbackInit /\ [][FeedbackNext]_vars

----------------------------------------------------------------------------
(* The TypeScript source of the web analyzer: detection with the audio off *)

SourceInit ==
    /\ platform = "web"
    /\ env \in SourceEnvs
    /\ now \in StartTimes
    /\ Constructed(DefaultConfig)
    /\ origin = -1

\* events without readings, complete events and events with one null axis
SourceSamples ==
    {WebNull} \cup {WebMotion(l) : l \in LifecycleDeviations}
              \cup {WebPartial(axis, Exceeding) : axis \in Axes}

SourceNext ==
    \/ \E st \in NewContextStates : ClickStart(st)
    \/ \E answer \in PermissionAnswers, st \in NewContextStates : PermissionResolved(answer, st)
    \/ \E sample \in SourceSamples, st \in NewContextStates : HandleMotion(sample, st)
    \/ \E d \in TickSteps : now + d <= MaxTime /\ Tick(d)

SourceSpec == SourceInit /\ [][SourceNext]_vars

----------------------------------------------------------------------------
(* Wall clock: detection under a clock that may be set back, for analyzers *)
(* constructed with or without a debounce time                             *)

DebounceTimes == {0, DefaultDebounceTime}

\* the clock moves, either way, by one debounce time
WallClockSteps == {DefaultDebounceTime}

WallClockInit ==
    /\ platform \in {"web", "android"}
    /\ env \in (IF platform = "web" THEN WebEnvs ELSE AndroidEnvs)
    /\ now \in StartTimes
    /\ \E dt \in DebounceTimes : Constructed([DefaultConfig EXCEPT !.debounceTime = dt])
    /\ origin = -1

WallClockNext ==
    \/ \E st \in NewContextStates : ClickStart(st)
    \/ \E answer \in PermissionAnswers, st \in NewContextStates : PermissionResolved(answer, st)
    \/ \E sample \in LifecycleSamples, st \in NewContextStates :
           Len(events) < MaxBounces /\ HandleMotion(sample, st)
    \/ ServiceStartDetection
    \/ ServiceStopDetection
    \/ \E type \in SensorTypes : \E values \in LifecycleReadings(type) :
           Len(events) < MaxBounces /\ OnSensorChanged(type, values)
    \/ \E d \in WallClockSteps : now + d <= MaxTime /\ Tick(d)
    \/ \E d \in WallClockSteps : ClockSetBack(d)

WallClockSpec == WallClockInit /\ [][WallClockNext]_vars

----------------------------------------------------------------------------
(* Tone: sessions in a frequency mode, with samples at many distances from *)
(* the baseline, at one instant of the clock                               *)

\* distances from the baseline, in 0.01 m/s^2: none, half and all of either
\* analyzer's maximum, beyond it, and a dip
ToneDeviations == {0, 250, 500, 1000, 1200, -250}

ToneInit ==
    /\ platform \in {"web", "android"}
    /\ env \in (IF platform = "web" THEN WebEnvs ELSE AndroidEnvs)
    /\ now = LifecycleTime
    /\ \E m \in FrequencyModes : SessionStarted(StoredWith(m))
    /\ origin = -1

ToneNext ==
    \/ \E st \in NewContextStates : ClickStart(st)
    \/ \E answer \in PermissionAnswers, st \in NewContextStates : PermissionResolved(answer, st)
    \/ \E l \in ToneDeviations, st \in NewContextStates : HandleMotion(WebMotion(l), st)
    \/ AudioResumed
    \/ ServiceStartDetection
    \/ ServiceStopDetection
    \/ \E type \in SensorTypes, l \in ToneDeviations :
           OnSensorChanged(type, IF type = "linear" THEN <<0, 0, l>> ELSE DefaultGravity)

ToneSpec == ToneInit /\ [][ToneNext]_vars

----------------------------------------------------------------------------
(* Properties of bounce detection *)

\* C1: any two consecutive bounce events are at least debounceTime apart, however
\* many samples in between exceed the sensitivity threshold.
C1_DebounceWindow ==
    \A i \in 1..(Len(events) - 1) : events[i + 1] - events[i] >= config.debounceTime

\* a second bounce event was emitted exactly debounceTime after the one before
C1_Witness ==
    /\ Len(events) >= 2
    /\ Emitted(out, "bounce")
    /\ events[Len(events)] - events[Len(events) - 1] = config.debounceTime

\* C2: for every sample processed while Detecting, a bounce fires if and only if
\* the sample is at least debounceTime after lastBounceTime and its magnitude
\* deviates from the baseline by strictly more than the sensitivity; when it fires
\* lastBounceTime becomes the sample's timestamp and bounceCount grows by one, and
\* when it does not fire both are unchanged.
C2_DetectionRule ==
    [][(isRunning /\ ~isCalibrating /\ Emitted(out', "magnitude") /\ now' = now) =>
          LET m == ValueOf(out', "magnitude")
              due == /\ now - lastBounceTime >= config.debounceTime
                     /\ Abs(m - baselineMagnitude) > config.sensitivity
              fires == Emitted(out', "bounce")
          IN /\ fires <=> due
             /\ IF fires
                THEN lastBounceTime' = now /\ bounceCount' = bounceCount + 1
                ELSE UNCHANGED <<lastBounceTime, bounceCount>>]_vars

\* a sample that deviates exactly by the sensitivity, outside the debounce window,
\* was processed while Detecting and did not fire
C2_Witness ==
    /\ isRunning /\ ~isCalibrating
    /\ Emitted(out, "magnitude") /\ ~Emitted(out, "bounce")
    /\ Abs(ValueOf(out, "magnitude") - baselineMagnitude) = config.sensitivity
    /\ now - lastBounceTime >= config.debounceTime
    /\ bounceCount >= 1

\* C3 as stated: the session yields exactly 4 bounce events, at 0, 300, 600 and 900 ms
\* of the session, the first sample firing.
C3_FourEvents ==
    ScenarioDone => events = <<origin, origin + 300, origin + 600, origin + 900>>

\* C3, amended: the first sample fires only if its timestamp is at least debounceTime
\* past the initial lastBounceTime of 0; then there are exactly 4 events, at 0, 300,
\* 600 and 900 ms of the session, and otherwise (timestamps 0, 10, ..., 1000) exactly
\* 3 events, at 300, 600 and 900.
C3_EventsOfSession ==
    ScenarioDone =>
        events = IF origin >= config.debounceTime
                 THEN <<origin, origin + 300, origin + 600, origin + 900>>
                 ELSE <<300, 600, 900>>

\* the session ran to its end with four bounce events
C3_Witness == ScenarioDone /\ Len(events) = 4 /\ bounceCount = 4

----------------------------------------------------------------------------
(* Settings: the analyzers of a first launch whose sensitivity and gravity  *)
(* mode change, which calibrate, run and are constructed again, with the    *)
(* device upright or on its side                                            *)

LowSensitivity == 200           \* 2.0 m/s^2

\* the changes of the settings: the gravity mode is left alone during the second
\* a calibration run takes
Settings ==
    {<<"sensitivity", DefaultSensitivity>>, <<"sensitivity", LowSensitivity>>}
    \cup (IF isCalibrating THEN {} ELSE {<<"gravityMode", m>> : m \in GravityModes})

\* gravity of a device lying on its side
SideGravity == <<DefaultBaseline, 0, 0>>

\* a devicemotion event of a device on its side, at rest
WebOnSide == [acc |-> SideGravity, lin |-> <<0, 0, 0>>, nulls |-> {}]

\* a devicemotion event of a device at rest as the gravity estimate has it
WebStill == [acc |-> gravity, lin |-> <<0, 0, 0>>, nulls |-> {}]

\* while the device's sensor gives the gravity, a calibration run is made of samples
\* that exceed the threshold, and the device is turned between samples of a session;
\* while the filter estimates it the device keeps still
SettingsSamples ==
    IF config.gravityMode = "sensor"
    THEN IF isCalibrating THEN {WebMotion(Exceeding)} ELSE {WebMotion(0), WebOnSide}
    ELSE {WebStill}

\* the reading of an accelerometer that is pushed by l along the gravity g
Along(g, l) == IF g = SideGravity THEN <<DefaultBaseline + l, 0, 0>>
               ELSE <<0, 0, DefaultBaseline + l>>

\* the device is turned between the samples of a session and keeps its orientation
\* during a calibration run, whose samples exceed the threshold
SettingsReadings(type) ==
    IF type = "gravity"
    THEN IF ~isCalibrating THEN {DefaultGravity, SideGravity}
         ELSE IF lastGravity = NoReading THEN {DefaultGravity} ELSE {lastGravity}
    ELSE IF type = "linear" THEN {<<0, 0, 0>>}
    ELSE IF AndroidUseSensor
         THEN {Along(lastGravity, IF isCalibrating THEN Exceeding ELSE 0)}
         ELSE {gravity}

SettingsInit ==
    /\ platform \in {"web", "android"}
    /\ env \in (IF platform = "web" THEN WebEnvs ELSE AndroidEnvs)
    /\ now = LifecycleTime
    /\ Constructed(DefaultConfig)
    /\ origin = -1

SettingsNext ==
    \/ \E st \in NewContextStates : ClickStart(st)
    \/ \E answer \in PermissionAnswers, st \in NewContextStates : PermissionResolved(answer, st)
    \/ ClickCalibrate
    \/ \E sample \in SettingsSamples, st \in NewContextStates : HandleMotion(sample, st)
    \/ \E kv \in Settings : ChangeSetting(kv[1], kv[2])
    \/ ServiceStartDetection
    \/ ServiceStopDetection
    \/ ServiceStartCalibration
    \/ \E type \in SensorTypes : \E values \in SettingsReadings(type) :
           (type = "accel" => SensorsReady) /\ OnSensorChanged(type, values)
    \/ \E kv \in Settings : SelectSetting(kv[1], kv[2])
    \/ Restart

SettingsSpec == SettingsInit /\ [][SettingsNext]_vars

----------------------------------------------------------------------------
(* Gravity: the analyzers of a first launch with the device upright, on its *)
(* side or falling, with and without linear acceleration and gravity        *)
(* readings, in both gravity modes                                          *)

NoGravity == <<0, 0, 0>>

\* the low-pass filter is fed from these estimates only, which the sensors and
\* startCalibration leave
FilterStarts == {DefaultGravity, SideGravity, NoGravity}

FilterFed == gravity \in FilterStarts

\* the sample stream of a calibration run stops after this many samples
MaxRun == 2

RunGoesOn == isCalibrating => BagCardinality(calibrationSamples) < MaxRun

\* events of a device in free fall, and on its side without linear acceleration
WebFalling == [acc |-> NoGravity, lin |-> <<0, 0, 0>>, nulls |-> {}]
WebRestOnSide == [acc |-> SideGravity, lin |-> NoReading, nulls |-> {}]

GravitySamples ==
    {sample \in {WebMotion(0), WebOnSide, WebFalling, WebRest, WebRestOnSide} :
        WebUseSensor(sample) \/ FilterFed}

GravityReadings(type) ==
    IF type = "linear" THEN {<<0, 0, 0>>}
    ELSE IF type = "gravity" \/ AndroidUseSensor \/ FilterFed
    THEN {DefaultGravity, SideGravity, NoGravity}
    ELSE {}

GravityInit ==
    /\ platform \in {"web", "android"}
    /\ env \in (IF platform = "web" THEN WebEnvs ELSE AndroidEnvs)
    /\ now = LifecycleTime
    /\ Constructed(DefaultConfig)
    /\ origin = -1

GravityNext ==
    \/ \E st \in NewContextStates : ClickStart(st)
    \/ \E answer \in PermissionAnswers, st \in NewContextStates : PermissionResolved(answer, st)
    \/ ClickCalibrate
    \/ \E sample \in GravitySamples, st \in NewContextStates :
           RunGoesOn /\ HandleMotion(sample, st)
    \/ \E mode \in GravityModes : ChangeSetting("gravityMode", mode)
    \/ ServiceStartDetection
    \/ ServiceStopDetection
    \/ ServiceStartCalibration
    \/ \E type \in SensorTypes : \E values \in GravityReadings(type) :
           RunGoesOn /\ OnSensorChanged(type, values)
    \/ \E mode \in GravityModes : SelectSetting("gravityMode", mode)

GravitySpec == GravityInit /\ [][GravityNext]_vars

----------------------------------------------------------------------------
(* Fade: sessions that start with a stored continuous audio mode, whose     *)
(* tone plays on between samples of several deviations                      *)

FadeDeviations == {0, 250, 500, 1000}

FadeInit ==
    /\ platform \in {"web", "android"}
    /\ env \in (IF platform = "web" THEN WebEnvs ELSE AndroidEnvs)
    /\ now = LifecycleTime
    /\ \E m \in FrequencyModes : SessionStarted(StoredWith(m))
    /\ origin = -1

FadeNext ==
    \/ \E st \in NewContextStates : ClickStart(st)
    \/ \E answer \in PermissionAnswers, st \in NewContextStates : PermissionResolved(answer, st)
    \/ \E l \in FadeDeviations, st \in NewContextStates : HandleMotion(WebMotion(l), st)
    \/ AudioResumed
    \/ ServiceStartDetection
    \/ ServiceStopDetection
    \/ \E type \in SensorTypes, l \in FadeDeviations :
           OnSensorChanged(type, IF type = "linear" THEN <<0, 0, l>> ELSE DefaultGravity)
    \/ SmoothVolume

FadeSpec == FadeInit /\ [][FadeNext]_vars

----------------------------------------------------------------------------
(* Service: the Android application with its activity, the intents on their *)
(* way to the service and the service's end, at one instant of the clock    *)

ServiceInit ==
    /\ platform = "android"
    /\ env \in AndroidEnvs
    /\ now = LifecycleTime
    /\ Constructed(DefaultConfig)
    /\ origin = -1

ServiceNext ==
    \/ ToggleDetection
    \/ \E action \in IntentActions : OnStartCommand(action)
    \/ OnDestroy
    \/ ActivityOnStop
    \/ ActivityOnStart
    \/ \E type \in SensorTypes : \E values \in LifecycleReadings(type) : OnSensorChanged(type, values)
    \/ \E mode \in AudioModes : SelectAudioMode(mode)

ServiceSpec == ServiceInit /\ [][ServiceNext]_vars

----------------------------------------------------------------------------
(* Stored settings: sessions that find settings some of whose keys are     *)
(* missing or hold a mode this version does not know, and start anew       *)

StoredModes == {"discrete", "loud"}
StoredGravityModes == {"filter", "tilt"}

\* the stored item / preferences an earlier version of the application left
StoredSettings ==
    {[keys |-> ks, sensitivity |-> LowSensitivity,
      baselineMagnitude |-> DefaultBaseline + MaxDrift, audioMode |-> m,
      audioVolume |-> FullVolume, gravityMode |-> gm, gravity |-> SideGravity] :
        ks \in SUBSET WebKeys, m \in StoredModes, gm \in StoredGravityModes}

StoredInit ==
    /\ platform \in {"web", "android"}
    /\ env \in (IF platform = "web" THEN WebEnvs ELSE AndroidEnvs)
    /\ now = LifecycleTime
    /\ \E st \in StoredSettings : SessionStarted(st)
    /\ origin = -1

StoredNext ==
    \/ \E st \in NewContextStates : ClickStart(st)
    \/ \E answer \in PermissionAnswers, st \in NewContextStates : PermissionResolved(answer, st)
    \/ \E kv \in Settings : ChangeSetting(kv[1], kv[2])
    \/ ServiceStartDetection
    \/ ServiceStopDetection
    \/ \E kv \in Settings : SelectSetting(kv[1], kv[2])
    \/ Restart

StoredSpec == StoredInit /\ [][StoredNext]_vars

----------------------------------------------------------------------------
(* Properties of the lifecycle *)

Detecting == isRunning /\ ~isCalibrating
Idle == ~isRunning /\ ~isCalibrating

\* C4: the analyzer is never both Detecting (isRunning) and Calibrating
\* (isCalibrating), under any interleaving of its operations.
C4_MutualExclusion == ~(isRunning /\ isCalibrating)

\* this step is a call of startCalibration: it emits one of its two statuses
StartCalibrationCalled ==
    StatusEmitted(out', "warning") \/ StatusEmitted(out', "calibrating")

\* C5: startCalibration called while Detecting is rejected: it emits a warning
\* status and changes no analyzer state, and detection keeps running.
C5_CalibrationRejected ==
    [][(Detecting /\ StartCalibrationCalled) =>
          /\ StatusEmitted(out', "warning")
          /\ UNCHANGED <<isRunning, isCalibrating, calibrationSamples, gravity,
                         baselineMagnitude, bounceCount, lastBounceTime, listening>>]_vars

\* startCalibration was called while Detecting and answered with the warning
C5_Witness == Detecting /\ StatusEmitted(out, "warning") /\ listening # {}

\* C6: whenever isRunning, the motion / sensor listener is registered; nothing but
\* stopDetection unregisters it.
C6_ListenerWhileRunning ==
    isRunning => (IF platform = "web" THEN "motion" ELSE "accel") \in listening

\* C7: after stopDetection, until the next call of startDetection, the analyzer
\* is not running, consumes no samples, and its oscillator stays stopped.
C7_IdleAfterStop == stopped => (~isRunning /\ ~oscillator /\ listening = {})

----------------------------------------------------------------------------
(* Properties of calibration *)

\* this step processes the 50th sample since the matching startCalibration
FiftiethSample ==
    /\ isCalibrating
    /\ BagCardinality(collected) = CalibrationSampleCount - 1
    /\ BagCardinality(collected') = CalibrationSampleCount

\* the calibration-complete signals among the signals o: the listener's
\* onCalibrationComplete on Android, the "Calibrated" status of the web page
Completions(o) ==
    {i \in 1..Len(o) : IF platform = "web" THEN o[i].sig = "status" /\ o[i].msg = "Calibrated"
                       ELSE o[i].sig = "calibrationComplete"}

\* C8: at the 50th calibration sample isCalibrating becomes false, the listener is
\* released, the analyzer is Idle, and baselineMagnitude is the mean of exactly the
\* 50 magnitudes collected since the matching startCalibration.
C8_CalibrationEnds ==
    [][FiftiethSample =>
          /\ ~isCalibrating'
          /\ listening' = {}
          /\ Idle'
          /\ baselineMagnitude' = Quot(BagSum(collected'), CalibrationSampleCount)]_vars

\* C9: a calibration run emits the calibration-complete signal exactly once, at its
\* 50th sample and carrying the newly computed baseline, and no calibration-complete
\* signal is emitted at any other time.
C9_CompleteOnce ==
    [][IF FiftiethSample
       THEN /\ Cardinality(Completions(out')) = 1
            /\ \A i \in Completions(out') : out'[i].val = baselineMagnitude'
            /\ baselineMagnitude' = Quot(BagSum(collected'), CalibrationSampleCount)
       ELSE Completions(out') = {}]_vars

\* a run of 50 samples, not all alike, has just ended with one calibration-complete
\* signal that carries their mean
C9_Witness ==
    /\ BagCardinality(collected) = CalibrationSampleCount
    /\ Cardinality(DOMAIN collected) = 2
    /\ Cardinality(Completions(out)) = 1
    /\ \A i \in Completions(out) : out[i].val = baselineMagnitude
    /\ baselineMagnitude # DefaultBaseline

\* C10: when calibration completes, the settings written to the store contain the
\* new baseline.
C10_BaselinePersisted ==
    [][FiftiethSample =>
          /\ "baselineMagnitude" \in store'.keys
          /\ store'.baselineMagnitude = baselineMagnitude']_vars

----------------------------------------------------------------------------
(* Properties of samples during calibration *)

\* the signals of bounce feedback
Feedback(o) == Emitted(o, "bounce") \/ Emitted(o, "vibrate") \/ Emitted(o, "buzz")

\* C11: while Calibrating, processing a sample emits no bounce, no vibration and no
\* tone, and leaves bounceCount, lastBounceTime and the audio targets unchanged,
\* whatever the sample's deviation from the baseline.
C11_CalibrationFrame ==
    [][(isCalibrating /\ Emitted(out', "magnitude")) =>
          /\ ~Feedback(out')
          /\ UNCHANGED <<bounceCount, lastBounceTime, targetFrequency, targetVolume>>]_vars

\* a calibration run has just taken a sample beyond the threshold, outside the
\* debounce window, with an audio mode selected
C11_Witness ==
    /\ isCalibrating
    /\ calibrationSamples # EmptyBag
    /\ Emitted(out, "magnitude")
    /\ Abs(ValueOf(out, "magnitude") - baselineMagnitude) > config.sensitivity
    /\ ~(now - lastBounceTime < config.debounceTime)
    /\ config.audioMode \in FrequencyModes

\* C12: a calibration run interrupted before its 50th sample leaves baselineMagnitude
\* unchanged and emits no calibration-complete signal, and a startCalibration after
\* it begins a new run with an empty sample list, which needs 50 new samples.
C12_InterruptedRun ==
    [][/\ (isCalibrating /\ BagCardinality(calibrationSamples') < CalibrationSampleCount) =>
             /\ baselineMagnitude' = baselineMagnitude
             /\ Completions(out') = {}
       /\ StatusEmitted(out', "calibrating") =>
             /\ isCalibrating'
             /\ calibrationSamples' = EmptyBag]_vars

\* the sample stream of a calibration run has stopped after some samples, fewer
\* than 50: the baseline is the one before the run, and the analyzer accepts a
\* new startCalibration
C12_Witness ==
    /\ isCalibrating
    /\ ~isRunning
    /\ listening = {}
    /\ calibrationSamples # EmptyBag
    /\ BagCardinality(calibrationSamples) < CalibrationSampleCount
    /\ baselineMagnitude = DefaultBaseline
    /\ stopped

\* events in which accelerationIncludingGravity is missing or has a null axis
NullSamples ==
    {WebNull} \cup {WebPartial(axis, l) : axis \in Axes, l \in {0, DefaultSensitivity + 1}}

\* C13: a sample whose accelerationIncludingGravity is missing or has a null x, y or
\* z is dropped: gravity, calibrationSamples, baselineMagnitude, bounceCount and
\* lastBounceTime are unchanged and no magnitude, bounce or calibration signal is
\* emitted.
C13_NullSampleDropped ==
    [][\A sample \in NullSamples, st \in NewContextStates :
          HandleMotion(sample, st) =>
             /\ out' = <<>>
             /\ UNCHANGED <<gravity, calibrationSamples, baselineMagnitude, bounceCount,
                            lastBounceTime>>]_vars

----------------------------------------------------------------------------
(* Properties of the bounce count and of the feedback *)

\* C14: bounceCount changes only by +1, and it is set back to 0 only by the
\* startDetection that begins a session, by no other operation and at no other time.
C14_CountSteps ==
    [][/\ \/ bounceCount' = bounceCount
          \/ bounceCount' = bounceCount + 1
          \/ bounceCount' = 0 /\ ~isRunning /\ isRunning'
       /\ (~isRunning /\ isRunning') => bounceCount' = 0]_vars

BounceEvents(o) == {i \in 1..Len(o) : o[i].sig = "bounce"}

\* a sample outside calibration that detectBounce accepts: a debounced crossing
Crossing ==
    /\ ~isCalibrating
    /\ Emitted(out', "magnitude")
    /\ DetectBounce(ValueOf(out', "magnitude"), now)

\* C16: the bounce signal is emitted exactly once per debounced crossing, and by
\* nothing else, and it carries the new count: the n-th bounce signal of a session
\* carries n, the analyzer's bounceCount; on Android the count the service holds
\* after the signal equals it.
C16_BounceCarriesCount ==
    [][/\ Cardinality(BounceEvents(out')) = IF Crossing THEN 1 ELSE 0
       /\ \A i \in BounceEvents(out') :
             /\ out'[i].val = bounceCount'
             /\ out'[i].val = sessionBounces'
             /\ platform = "android" => currentBounceCount' = bounceCount']_vars

\* the vibrations among the signals o, each of vibrationDuration
Vibrations(o) ==
    {i \in 1..Len(o) : o[i].sig = "vibrate" /\ o[i].val = config.vibrationDuration}

\* a discrete tone starts, or playDiscreteBuzz waits for the suspended audio
\* context to resume before it starts one
ToneTriggered ==
    \/ Emitted(out', "buzz")
    \/ platform = "web" /\ Len(resumeWaiters') > Len(resumeWaiters)

SymmetricDeviations == {0, DefaultSensitivity, DefaultSensitivity + 1, DefaultSensitivity + 100}

\* C18: detection is symmetric in the sign of the deviation: in any state, at the
\* same timestamp, magnitudes baseline - d and baseline + d get the same verdict;
\* with sensitivity 3.0, a dip of 4.0 and a spike of 4.0 outside the debounce
\* window both fire.
C18_SignSymmetry ==
    \A d \in SymmetricDeviations :
       /\ DetectBounce(baselineMagnitude - d, now) <=> DetectBounce(baselineMagnitude + d, now)
       /\ (/\ d = DefaultSensitivity + 100
           /\ config.sensitivity = DefaultSensitivity
           /\ ~(now - lastBounceTime < config.debounceTime)) =>
             /\ DetectBounce(baselineMagnitude - d, now)
             /\ DetectBounce(baselineMagnitude + d, now)

\* a dip below the baseline has just fired one bounce
C18_Witness ==
    /\ Cardinality(BounceEvents(out)) = 1
    /\ Emitted(out, "magnitude")
    /\ ValueOf(out, "magnitude") < baselineMagnitude - config.sensitivity
    /\ lastBounceTime = now

----------------------------------------------------------------------------
(* Orientation *)

\* the reading v of a device turned by 90 degrees: the z axis, which carries
\* gravity, is swapped with the x axis
Turned(v) == IF v = NoReading THEN v ELSE <<v[3], v[2], v[1]>>

\* the event as the turned device reports it
Rotated(sample) == [sample EXCEPT !.acc = Turned(@), !.lin = Turned(@)]

\* complete events of a device with and without a linear acceleration sensor
OrientationSamples == {WebRest} \cup {WebMotion(l) : l \in Deviations}

\* C19: detection does not depend on the orientation of the device: from the same
\* state and at the same time, an event and the same event of the device turned by
\* 90 degrees get the same verdict, so two copies of the analyzer fed a timeline and
\* the turned timeline have identical bounce counts after every sample.
C19_OrientationIndependent ==
    (platform = "web" /\ "motion" \in listening /\ ~isCalibrating) =>
       \A sample \in OrientationSamples :
          DetectBounce(SampleMagnitude(sample), now)
             <=> DetectBounce(SampleMagnitude(Rotated(sample)), now)

----------------------------------------------------------------------------
(* Properties of the continuous tone *)

\* the deviation at which the tone reaches its highest frequency
MaxAudioDeviation == IF platform = "web" THEN WebMaxDeviation ELSE config.audioSensitivity

ToneSample ==
    /\ Emitted(out', "magnitude")
    /\ isRunning
    /\ ~isCalibrating
    /\ config.audioMode \in FrequencyModes

\* the targets of the continuous tone follow the deviation of the sample just processed
TargetsFollow ==
    LET deviation == Abs(ValueOf(out', "magnitude") - baselineMagnitude)
    IN /\ targetFrequency' = FrequencyFor(deviation, MaxAudioDeviation)
       /\ config.audioMode = "frequency-fadeout" =>
             targetVolume' = NormalizedDeviation(deviation, MaxAudioDeviation)

\* C21 as stated: while Detecting in a frequency mode, every processed sample
\* updates the continuous audio target from its deviation, whether or not it fires
\* and inside the debounce window too.
C21_TargetEverySample ==
    [][ToneSample => TargetsFollow]_vars

\* C21, amended: the same, on the web from the moment the tone's oscillator
\* exists: until then updateFrequencyFromDeviation returns without an update.
C21_TargetWhileTonePlays ==
    [][ToneSample =>
          IF platform = "web" /\ ~oscillator
          THEN UNCHANGED <<targetFrequency, targetVolume>>
          ELSE TargetsFollow]_vars

\* a sample beyond the threshold inside the debounce window did not fire and
\* moved the target of the playing tone
C21_Witness ==
    /\ isRunning
    /\ oscillator
    /\ config.audioMode \in FrequencyModes
    /\ Emitted(out, "magnitude")
    /\ ~Emitted(out, "bounce")
    /\ Abs(ValueOf(out, "magnitude") - baselineMagnitude) > config.sensitivity
    /\ now - lastBounceTime < config.debounceTime
    /\ targetFrequency > MinFreq

----------------------------------------------------------------------------
(* Properties of stopDetection and of the baseline *)

\* C22: stopDetection is idempotent: in every reachable state, calling it twice in
\* a row leaves isRunning, the listener registration, the oscillator or audio job
\* and bounceCount as calling it once does; lastBounceTime, baselineMagnitude and
\* isCalibrating are not touched by either call.
C22_StopIdempotent ==
    IF platform = "web"
    THEN WebStopped(WebStopped(WebCur)) = WebStopped(WebCur)
    ELSE AndroidStopped(AndroidStopped(WebCur)) = AndroidStopped(WebCur)

\* stopDetection has just ended a session whose tone was playing
C22_Witness ==
    /\ stopped
    /\ StatusEmitted(out, "ready")
    /\ ~isRunning
    /\ ~oscillator
    /\ listening = {}
    /\ config.audioMode \in FrequencyModes
    /\ audioContext = "running"

\* the operations that begin an analyzer's life with a baseline: the constructor,
\* followed on the web by loadSettings
Initialisation == Restart

\* C23: baselineMagnitude is changed only by a completed calibration and by the
\* initialisation of an analyzer: startDetection, stopDetection, a rejected or an
\* unfinished startCalibration, the samples of a session and the changes of the
\* configuration leave it unchanged.
C23_BaselineFrame ==
    [][baselineMagnitude' # baselineMagnitude =>
          \/ FiftiethSample /\ Completions(out') # {}
          \/ Initialisation]_vars

\* a completed calibration has moved the baseline, and detection with another
\* sensitivity has run on it since
C23_Witness ==
    /\ baselineMagnitude # DefaultBaseline
    /\ config.sensitivity # DefaultSensitivity
    /\ Detecting
    /\ Emitted(out, "magnitude")

----------------------------------------------------------------------------
(* Properties of the persisted settings *)

\* what saveSettings writes in this state
Saved ==
    IF platform = "web" THEN WebSaveSettings(config, baselineMagnitude, gravity)
    ELSE ActivitySaveSettings(ui)

\* the settings of a newly constructed analyzer that has loaded the stored item st
Loaded(st) ==
    LET cfg == IF platform = "web" THEN WebLoadConfig(DefaultConfig, st)
               ELSE ApplyUi(DefaultConfig, ActivityLoadSettings(st))
    IN [sensitivity |-> cfg.sensitivity,
        baselineMagnitude |-> IF platform = "web" THEN WebLoadBaseline(DefaultBaseline, st)
                              ELSE DefaultBaseline,
        audioMode |-> cfg.audioMode,
        audioVolume |-> cfg.audioVolume,
        gravityMode |-> cfg.gravityMode,
        gravity |-> IF platform = "web" THEN WebLoadGravity(DefaultGravity, st)
                    ELSE DefaultGravity]

\* the same settings of this analyzer
Settled ==
    [sensitivity |-> config.sensitivity, baselineMagnitude |-> baselineMagnitude,
     audioMode |-> config.audioMode, audioVolume |-> config.audioVolume,
     gravityMode |-> config.gravityMode, gravity |-> gravity]

\* C24: the persisted settings round-trip: saving the settings and loading them into
\* a newly constructed analyzer restores sensitivity, baselineMagnitude, audioMode,
\* audioVolume, gravityMode and the gravity estimate to exactly the saved values.
C24_SettingsRoundTrip == Loaded(Saved) = Settled

----------------------------------------------------------------------------
(* Properties of the per-sample observation *)

\* the current-magnitude observations among the signals o
Observations(o) == {i \in 1..Len(o) : o[i].sig = "magnitude"}

\* C25: every processed sample emits exactly one current-magnitude observation,
\* while Calibrating and while Detecting, whether or not the sample fires a bounce;
\* a sample without a reading emits none.
C25_ObservationPerSample ==
    [][/\ \A sample \in FeedbackSamples, st \in NewContextStates :
             HandleMotion(sample, st) =>
                Cardinality(Observations(out')) = IF SampleIgnored(sample) THEN 0 ELSE 1
       /\ \A values \in FeedbackReadings("accel") :
             OnSensorChanged("accel", values) => Cardinality(Observations(out')) = 1]_vars

\* the 50th sample of a calibration run was observed as it completed the run
C25_Witness ==
    /\ Cardinality(Observations(out)) = 1
    /\ Completions(out) # {}
    /\ BagCardinality(collected) = CalibrationSampleCount

----------------------------------------------------------------------------
(* Properties of the gravity estimate and the magnitude *)

\* the Filtered update of the gravity estimate for the reading acc
Filtered(acc) ==
    LowPass(IF isCalibrating THEN CalibrationAlpha ELSE GravityAlpha, acc, gravity)

\* the projection of v onto the gravity estimate g
Projection(v, g) == Quot(Dot(v, g), Norm(g))

\* this step leaves the gravity estimate `sensed` if sensorGravity and the Filtered
\* one otherwise, and observes the baseline plus the projection of lin if
\* linearMagnitude and the projection of acc otherwise
Resolved(sensorGravity, linearMagnitude, acc, lin, sensed) ==
    /\ gravity' = IF sensorGravity THEN sensed ELSE Filtered(acc)
    /\ Norm(gravity') > MinGravityMagnitude =>
          ValueOf(out', "magnitude") =
              IF linearMagnitude THEN baselineMagnitude + Projection(lin, gravity')
              ELSE Abs(Projection(acc, gravity'))

\* C26 as stated: per sample the gravity is Direct if and only if gravityMode is
\* 'sensor' and a linear-acceleration reading is available; otherwise the Filtered
\* low-pass update is used, with alpha 0.1 while Calibrating and 0.005 otherwise, and
\* the magnitude is the projection of the total acceleration onto the estimate.
C26_DirectIffLinear ==
    [][/\ \A sample \in GravitySamples, st \in NewContextStates :
             HandleMotion(sample, st) =>
                LET direct == config.gravityMode = "sensor" /\ sample.lin # NoReading
                IN Resolved(direct, direct, sample.acc, sample.lin,
                            VecSub(sample.acc, sample.lin))
       /\ \A values \in GravityReadings("accel") :
             OnSensorChanged("accel", values) =>
                LET direct == config.gravityMode = "sensor" /\ lastLinearAcc # NoReading
                IN Resolved(direct, direct, values, lastLinearAcc, lastGravity)]_vars

\* C26: per sample of the web analyzer the gravity is Direct if and only if
\* gravityMode is 'sensor' and the event has a linear acceleration. The Android
\* analyzer takes the gravity sensor's last reading if and only if gravityMode is
\* 'sensor', the device has a gravity sensor and it has reported, and takes the
\* magnitude from the linear acceleration if moreover that sensor has reported. In
\* every other case the estimate is the low-pass update, with alpha 0.1 while
\* Calibrating and 0.005 otherwise, and the magnitude the projection of the total
\* acceleration onto the estimate.
C26_ModeResolution ==
    [][/\ \A sample \in GravitySamples, st \in NewContextStates :
             HandleMotion(sample, st) =>
                LET direct == config.gravityMode = "sensor" /\ sample.lin # NoReading
                IN Resolved(direct, direct, sample.acc, sample.lin,
                            VecSub(sample.acc, sample.lin))
       /\ \A values \in GravityReadings("accel") :
             OnSensorChanged("accel", values) =>
                LET sensor == /\ config.gravityMode = "sensor"
                              /\ env.gravitySensorSupported
                              /\ lastGravity # NoReading
                IN Resolved(sensor, sensor /\ lastLinearAcc # NoReading, values,
                            lastLinearAcc, lastGravity)]_vars

\* a sample of the Android analyzer in 'sensor' mode, before any linear acceleration
\* was reported, has taken the gravity sensor's reading of a device on its side
C26_Witness ==
    /\ platform = "android"
    /\ Emitted(out, "magnitude")
    /\ config.gravityMode = "sensor"
    /\ lastLinearAcc = NoReading
    /\ lastGravity = SideGravity
    /\ gravity = SideGravity

----------------------------------------------------------------------------
(* Properties of the volume of the continuous tone *)

\* the volume after n smoothing steps towards a target that stays
RECURSIVE Smoothed(_, _, _)
Smoothed(n, current, target) ==
    IF n = 0 THEN current ELSE Smoothed(n - 1, VolumeStep(current, target), target)

\* the smallest difference of two volumes that a smoothing step of either direction
\* moves, in per-mille
VolumeResolution == 20

\* C27: in 'frequency-fadeout' mode the smoothing chosen when the target volume is
\* above the current volume is faster than the one chosen when it is not: after the
\* same number of smoothing steps, the volume that rises from the lower of two
\* volumes to the higher is closer to its target than the volume that falls from the
\* higher to the lower. The two volumes are the tone's volume and target in any state.
C27_FadeoutAsymmetry ==
    LET low == Min(currentVolume, targetVolume)
        high == IF currentVolume > targetVolume THEN currentVolume ELSE targetVolume
    IN (oscillator /\ config.audioMode = "frequency-fadeout"
                   /\ high - low >= VolumeResolution) =>
          \A n \in 1..MaxSmoothingSteps :
              high - Smoothed(n, low, high) < Smoothed(n, high, low) - low

\* the tone of a 'frequency-fadeout' session is on its way up to the volume of a
\* sample, after at least one smoothing step
C27_Witness ==
    /\ oscillator
    /\ config.audioMode = "frequency-fadeout"
    /\ 0 < currentVolume
    /\ currentVolume + VolumeResolution <= targetVolume
    /\ out = <<>>

----------------------------------------------------------------------------
(* Properties of startCalibration *)

\* C28: a startCalibration accepted from Idle sets isCalibrating, empties
\* calibrationSamples and resets the gravity estimate to (0, 0, 9.81) before any
\* calibration sample is processed, whatever estimate was present or loaded from the
\* persisted settings; baselineMagnitude, bounceCount and lastBounceTime are
\* unchanged by the call.
C28_CalibrationEntry ==
    [][(Idle /\ StatusEmitted(out', "calibrating")) =>
          /\ isCalibrating'
          /\ calibrationSamples' = EmptyBag
          /\ gravity' = <<0, 0, DefaultBaseline>>
          /\ UNCHANGED <<baselineMagnitude, bounceCount, lastBounceTime>>]_vars

\* startCalibration was accepted by a web analyzer whose settings were last saved
\* with the gravity estimate of a device on its side
C28_Witness ==
    /\ platform = "web"
    /\ isCalibrating
    /\ StatusEmitted(out, "calibrating")
    /\ calibrationSamples = EmptyBag
    /\ gravity = <<0, 0, DefaultBaseline>>
    /\ "gravityX" \in store.keys
    /\ store.gravity = SideGravity

\* this step observes, for a gravity estimate of magnitude 0.1 or less, the baseline
\* if direct (and fires no bounce) and the norm of the reading acc otherwise
Guarded(direct, acc) ==
    Norm(gravity') <= MinGravityMagnitude =>
        /\ ValueOf(out', "magnitude") = IF direct THEN baselineMagnitude ELSE Norm(acc)
        /\ direct => ~Emitted(out', "bounce")

\* C29: the division by a near-zero gravity magnitude is guarded on every path: when
\* the magnitude of the gravity estimate is 0.1 or less, the magnitude of a sample is
\* baselineMagnitude where it is computed from the linear acceleration, so that no
\* bounce fires, and the Euclidean norm of the raw acceleration otherwise.
C29_NearZeroGravity ==
    [][/\ \A sample \in GravitySamples, st \in NewContextStates :
             HandleMotion(sample, st) =>
                Guarded(config.gravityMode = "sensor" /\ sample.lin # NoReading, sample.acc)
       /\ \A values \in GravityReadings("accel") :
             OnSensorChanged("accel", values) =>
                Guarded(AndroidUseSensor /\ lastLinearAcc # NoReading, values)]_vars

\* a sample of a device at rest met a gravity estimate shorter than 0.1 and was
\* observed with the norm of its acceleration
C29_Witness ==
    /\ Emitted(out, "magnitude")
    /\ Norm(gravity) <= MinGravityMagnitude
    /\ gravity # NoGravity
    /\ ValueOf(out, "magnitude") = Norm(DefaultGravity)

----------------------------------------------------------------------------
(* Properties of the audio mode *)

\* C30: changing audioMode while Detecting takes effect on the continuous tone with
\* the change: after a switch to 'frequency' or 'frequency-fadeout' the tone plays,
\* after a switch to 'off' or 'discrete' it does not, without a stop and a restart of
\* the detection.
C30_ModeChangeImmediate ==
    [][(Detecting /\ config'.audioMode # config.audioMode) =>
          oscillator' = (config'.audioMode \in FrequencyModes)]_vars

----------------------------------------------------------------------------
\* what a call of the Android service leaves alone when it returns at once
serviceFields == <<detVars, isDetecting, wakeLockHeld, currentBounceCount>>

\* C31: BounceDetectorService.startDetection is a no-op when the service is already
\* detecting and stopDetection is a no-op when it is not; the START intent of a
\* user start whose toggleDetection called startDetection itself does not run the
\* analyzer's startDetection a second time; and bounceCount is never reset while a
\* session goes on.
C31_StartOnce ==
    [][/\ isDetecting /\ ((ToggleDetection /\ ~uiIsDetecting) \/ OnStartCommand("START"))
          => UNCHANGED serviceFields
       /\ ~isDetecting /\ ((ToggleDetection /\ uiIsDetecting) \/ OnStartCommand("STOP"))
          => UNCHANGED serviceFields
       /\ isRunning /\ isRunning' => bounceCount' >= bounceCount
       /\ OnStartCommand("START") /\ Head(startIntents) => out' = <<>>]_vars

----------------------------------------------------------------------------
\* a startDetection that cannot start: the permission prompt is answered with a
\* denial or fails, or the Android device has no accelerometer
StartFailed ==
    \/ \E answer \in PermissionAnswers \ {"granted"}, st \in NewContextStates :
           PermissionResolved(answer, st)
    \/ ServiceStartDetection /\ ~env.hasAccelerometer

\* C32: a startDetection that cannot start emits an error status and leaves the
\* analyzer as it was: isRunning, the registered listeners, the continuous tone and
\* bounceCount are unchanged, and an Idle analyzer stays Idle.
C32_FailedStart ==
    [][StartFailed => /\ StatusEmitted(out', "error")
                      /\ UNCHANGED <<isRunning, listening, oscillator, bounceCount>>
                      /\ (Idle => Idle')]_vars

\* a start has just failed on a rejected permission request, the analyzer is Idle
C32_Witness ==
    /\ out = <<Status("error", "thrown")>>
    /\ Idle /\ listening = {} /\ ~oscillator /\ bounceCount = 0

----------------------------------------------------------------------------
\* the keys of the configuration that the settings hold
ConfigKeys == {"sensitivity", "audioMode", "audioVolume", "gravityMode"}

\* the value the stored settings st give configuration key k on this platform
StoredValue(st, k) ==
    IF platform = "web" THEN st[k]
    ELSE IF k = "audioMode" THEN (IF st[k] \in AudioModes THEN st[k] ELSE "off")
    ELSE IF k = "gravityMode" THEN (IF st[k] \in GravityModes THEN st[k] ELSE "sensor")
    ELSE st[k]

\* C33: loading the stored settings into a newly constructed analyzer always
\* succeeds; a key the settings lack leaves its field at the constructed value, a
\* key present is applied whatever else is missing; the web gravity estimate is
\* replaced only when gravityX, gravityY and gravityZ are all present; on Android an
\* unrecognised audioMode / gravityMode becomes OFF / SENSOR, in MainActivity's
\* loadSettings and in the analyzer's.
C33_PartialLoad ==
    [][Restart =>
        LET st == store
            r == DetectorLoadSettings(DefaultConfig, DefaultBaseline, DefaultGravity, st)
        IN /\ \A k \in ConfigKeys :
                 config'[k] = IF k \in st.keys THEN StoredValue(st, k) ELSE DefaultConfig[k]
           /\ \A k \in DOMAIN DefaultConfig \ ConfigKeys : config'[k] = DefaultConfig[k]
           /\ platform = "web" =>
                 /\ baselineMagnitude' = IF "baselineMagnitude" \in st.keys
                                         THEN st.baselineMagnitude ELSE DefaultBaseline
                 /\ gravity' = IF {"gravityX", "gravityY", "gravityZ"} \subseteq st.keys
                               THEN st.gravity ELSE DefaultGravity
           /\ platform = "android" =>
                 /\ \A k \in ConfigKeys :
                       r.config[k] = IF k \in st.keys THEN StoredValue(st, k)
                                     ELSE DefaultConfig[k]
                 /\ r.baselineMagnitude = IF "baselineMagnitude" \in st.keys
                                          THEN st.baselineMagnitude ELSE DefaultBaseline]_vars

\* a web session that loaded settings lacking gravityY and audioMode: the stored
\* sensitivity is applied, the audio mode and the gravity estimate are as constructed
C33_Witness ==
    /\ platform = "web"
    /\ store.keys = WebKeys \ {"gravityY", "audioMode"}
    /\ config.sensitivity = LowSensitivity /\ config.audioMode = "off"
    /\ gravity = DefaultGravity /\ baselineMagnitude = DefaultBaseline + MaxDrift
    /\ ~isRunning /\ stopped = FALSE /\ out = <<>>

----------------------------------------------------------------------------
\* C34: whenever the continuous tone exists (web: the oscillator; Android: the audio
\* job), the analyzer is Detecting and audioMode is 'frequency' or
\* 'frequency-fadeout'.
C34_ToneOnlyWhileDetecting ==
    oscillator => Detecting /\ config.audioMode \in FrequencyModes

----------------------------------------------------------------------------
\* C35: after every operation of the Android service its isDetecting flag equals
\* the analyzer's isRunning flag, also where the analyzer's startDetection fails
\* for want of an accelerometer.
C35_FlagsAgree ==
    platform = "android" => isDetecting = isRunning

----------------------------------------------------------------------------
\* a call of the service's stopDetection: the button while the activity shows
\* detection, a STOP or STOP_SERVICE intent, onDestroy
StopRequested ==
    \/ ToggleDetection /\ uiIsDetecting
    \/ OnStartCommand("STOP")
    \/ OnStartCommand("STOP_SERVICE")
    \/ OnDestroy

\* C36: the service's wake lock is held only while the service is detecting; it is
\* acquired only by a startDetection that found the service not detecting and that
\* starts a session of the analyzer, so at most once per session; and after a
\* stopDetection, also one run by ACTION_STOP_SERVICE or onDestroy, it is not held.
C36_WakeLock ==
    [][/\ wakeLockHeld' => isDetecting'
       /\ ~wakeLockHeld /\ wakeLockHeld' => ~isDetecting /\ isRunning'
       /\ StopRequested => ~wakeLockHeld']_vars

----------------------------------------------------------------------------
\* C37: in the Android analyzer every gravity-sensor and linear-acceleration
\* reading that enters a sample's magnitude arrived after the most recent
\* startDetection or startCalibration; a reading cached in an earlier session is
\* never used.
C37_FreshReadings ==
    [][platform = "android" /\ Emitted(out', "magnitude") =>
          /\ AndroidUseSensor => "gravity" \in delivered
          /\ AndroidUseSensor /\ lastLinearAcc # NoReading => "linear" \in delivered]_vars

----------------------------------------------------------------------------
\* C38: calibrationSamples never holds more than 50 entries, holds at least one
\* when finishCalibration runs, and grows only while isCalibrating is true, by
\* exactly one entry for every sample processed then.
C38_SamplesBounded ==
    [][LET n == BagCardinality(calibrationSamples)
           grown == BagCardinality(calibrationSamples')
       IN /\ grown <= CalibrationSampleCount
          /\ grown > n => isCalibrating /\ grown = n + 1 /\ Emitted(out', "magnitude")
          /\ isCalibrating /\ Emitted(out', "magnitude") => grown = n + 1
          /\ isCalibrating /\ ~isCalibrating' /\ Emitted(out', "magnitude") => grown > 0]_vars

\* a calibration run has just ended on its 50th sample, which is still held
C38_Witness ==
    /\ ~isCalibrating
    /\ BagCardinality(calibrationSamples) = CalibrationSampleCount
    /\ Emitted(out, "magnitude")
    /\ StatusEmitted(out, "ready")

----------------------------------------------------------------------------
\* a startDetection or stopDetection runs, with the permission prompt's answer
SessionSwitch ==
    \/ \E st \in NewContextStates : ClickStart(st)
    \/ \E answer \in PermissionAnswers, st \in NewContextStates : PermissionResolved(answer, st)
    \/ ServiceStartDetection
    \/ ServiceStopDetection

\* C39: startDetection and stopDetection leave lastBounceTime unchanged, so a sample
\* fires a bounce only at least debounceTime after the last bounce signal of this or
\* any earlier session, or after the initial value 0 when there was none.
C39_DebounceCarriesOver ==
    [][/\ SessionSwitch => lastBounceTime' = lastBounceTime
       /\ Emitted(out', "bounce") =>
             now - (IF events = <<>> THEN 0 ELSE events[Len(events)]) >= config.debounceTime]_vars

\* the first exceeding sample of a new session did not fire: it came within
\* debounceTime of the last bounce of the session before
C39_Witness ==
    /\ isRunning /\ sessionBounces = 0 /\ events # <<>>
    /\ Emitted(out, "magnitude") /\ ~Emitted(out, "bounce")
    /\ Abs(ValueOf(out, "magnitude") - baselineMagnitude) > config.sensitivity
    /\ now - lastBounceTime < config.debounceTime

----------------------------------------------------------------------------
\* verticalLinearAcc: the projection of the linear acceleration lin on gravity g,
\* nothing where g is too small to give a direction
VerticalLinearAcc(lin, g) ==
    IF Norm(g) > MinGravityMagnitude THEN Projection(lin, g) ELSE 0

\* the sum of what the magnitudes of the run exceed the baseline by: in Direct
\* mode the sum of the vertical linear projections
RunExcess == BagSum(collected') - CalibrationSampleCount * baselineMagnitude

\* C40: in Direct mode every calibration magnitude is the current baselineMagnitude
\* plus the vertical projection of the linear acceleration, so a completed
\* calibration leaves the old baseline plus the mean of the 50 projections (to the
\* last digit kept), and the old baseline itself when all 50 are zero.
C40_DirectCalibration ==
    [][/\ \A sample \in CalibrationSamples, st \in NewContextStates :
             HandleMotion(sample, st) /\ isCalibrating /\ WebUseSensor(sample) =>
                ValueOf(out', "magnitude") =
                    baselineMagnitude + VerticalLinearAcc(sample.lin, gravity')
       /\ /\ platform = "android" /\ isCalibrating /\ Emitted(out', "magnitude")
          /\ AndroidUseSensor /\ lastLinearAcc # NoReading
          => ValueOf(out', "magnitude") =
                 baselineMagnitude + VerticalLinearAcc(lastLinearAcc, gravity')
       /\ FiftiethSample =>
             /\ Abs(CalibrationSampleCount * (baselineMagnitude' - baselineMagnitude)
                    - RunExcess) < CalibrationSampleCount
             /\ RunExcess = 0 => baselineMagnitude' = baselineMagnitude]_vars

\* a web calibration in Direct mode has just ended on 50 samples that all had the
\* same upward linear acceleration: the baseline has risen by it
C40_Witness ==
    /\ platform = "web" /\ config.gravityMode = "sensor"
    /\ ~isCalibrating /\ Completions(out) # {}
    /\ BagCardinality(collected) = CalibrationSampleCount
    /\ DOMAIN collected = {baselineMagnitude}
    /\ baselineMagnitude > DefaultBaseline
====
